---- MODULE Spec2Model ----
(***************************************************************************)
(* Model of the ILS verification bot: the reconciliation engine            *)
(* (Validator), the spreadsheet reader/writer (ExcelParser, ExcelWriter)   *)
(* and the document item extractor (PDFParser.parseItems).                 *)
(*                                                                         *)
(* JavaScript values are modelled explicitly: a string is a sequence of   *)
(* one-character strings, a number is an integer (quantities that are     *)
(* parsed from text are fixed-point, scaled by Scale), null/undefined is   *)
(* a tagged value, and a nullable object is a sequence of length 0 or 1.   *)
(***************************************************************************)
EXTENDS Integers, Sequences, FiniteSets, TLC

VARIABLES
    pc,          \* position of the caller in the flow being run
    options,     \* Validator.options
    worksheet,   \* ExcelParser.worksheet: the data rows, starting at row 5
    excelItems,  \* reference rows handed to the validator (ExcelParser.items)
    pdfItems,    \* PDFParser.items (the collaborator behind findBySeri)
    processed,   \* return value of Validator.processDuplicateSeri
    results,     \* validateBatch(...).results
    summary,     \* validateBatch(...).summary
    cells,       \* result columns AH..AM written by ExcelWriter, per row
    fullText,    \* PDFParser.fullText, as a sequence of lines (of characters
                 \* while the document is being loaded)
    doc,         \* the PDFParser that loads a document, with its OCR run
    strategies,  \* extraction strategies attempted by PDFParser.parseItems
    call,        \* arguments of a pending call of a pure function
    ret,         \* its return value
    logsDir,     \* the files of the logs directory, in readdir order
    now,         \* Date.now(), in milliseconds
    retry,       \* a call of retryWithBackoff in progress
    parsers,     \* the PDFParsers of documents that are loaded concurrently
    ocrTemp      \* the folder logs/ocr-temp that the OCR runs share

\* the file system, the clock and the helpers outside the validation flow
hostVars == <<logsDir, now, retry, parsers, ocrTemp>>

vars == <<pc, options, worksheet, excelItems, pdfItems, processed, results,
          summary, cells, fullText, doc, strategies, call, ret, hostVars>>

-----------------------------------------------------------------------------
(* JavaScript values *)

\* quantities are fixed-point numbers with four fractional digits
Scale == 10 * 10 * 10 * 10

Null == [t |-> "null", s |-> <<>>, n |-> 0]

Str(s) == [t |-> "str", s |-> s, n |-> 0]

Num(n) == [t |-> "num", s |-> <<>>, n |-> n]

\* the number NaN
NaNVal == [t |-> "nan", s |-> <<>>, n |-> 0]

NaN == [nan |-> TRUE, v |-> 0]

Finite(v) == [nan |-> FALSE, v |-> v]

None == <<>>

Some(x) == <<x>>

DigitChars == <<"0", "1", "2", "3", "4", "5", "6", "7", "8", "9">>

IsDigit(c) == \E i \in 1..10 : DigitChars[i] = c

DigitOf(c) == (CHOOSE i \in 1..10 : DigitChars[i] = c) - 1

IsSpace(c) == c = " "

RECURSIVE Pow10(_)
Pow10(k) == IF k = 0 THEN 1 ELSE 10 * Pow10(k - 1)

\* number of leading characters of s, from position p, that satisfy the test
RECURSIVE SpaceRun(_, _)
SpaceRun(s, p) ==
    IF p <= Len(s) /\ IsSpace(s[p]) THEN 1 + SpaceRun(s, p + 1) ELSE 0

RECURSIVE DigitRun(_, _)
DigitRun(s, p) ==
    IF p <= Len(s) /\ IsDigit(s[p]) THEN 1 + DigitRun(s, p + 1) ELSE 0

\* value of the k digits of s that start at position p
RECURSIVE DigitsValue(_, _, _)
DigitsValue(s, p, k) ==
    IF k = 0 THEN 0
    ELSE 10 * DigitsValue(s, p, k - 1) + DigitOf(s[p + k - 1])

\* String.prototype.trim
RECURSIVE TrimEnd(_)
TrimEnd(s) ==
    IF Len(s) > 0 /\ IsSpace(s[Len(s)]) THEN TrimEnd(SubSeq(s, 1, Len(s) - 1))
    ELSE s

Trim(s) == TrimEnd(SubSeq(s, SpaceRun(s, 1) + 1, Len(s)))

LowerLetters == <<"a", "b", "c", "d", "e", "f", "g", "h", "i", "j", "k", "l", "m",
                  "n", "o", "p", "q", "r", "s", "t", "u", "v", "w", "x", "y", "z">>

UpperLetters == <<"A", "B", "C", "D", "E", "F", "G", "H", "I", "J", "K", "L", "M",
                  "N", "O", "P", "Q", "R", "S", "T", "U", "V", "W", "X", "Y", "Z">>

UpperOf(c) ==
    IF \E i \in 1..26 : LowerLetters[i] = c
    THEN UpperLetters[CHOOSE i \in 1..26 : LowerLetters[i] = c]
    ELSE c

\* String.prototype.toUpperCase
ToUpperCase(s) == [i \in 1..Len(s) |-> UpperOf(s[i])]

\* text of a number that is a whole multiple of Scale (String(n))
RECURSIVE NatToString(_)
NatToString(n) ==
    IF n < 10 THEN <<DigitChars[n + 1]>>
    ELSE NatToString(n \div 10) \o <<DigitChars[(n % 10) + 1]>>

\* parseFloat on a string: leading white space, an optional sign, then the
\* longest prefix  digits [. digits]  or  . digits ; NaN when there is none.
\* The value is fixed-point: the number times Scale (digits beyond the
\* fourth fractional digit are dropped).
ParseFloatStr(s) ==
    LET p0 == SpaceRun(s, 1) + 1
        neg == p0 <= Len(s) /\ s[p0] = "-"
        pos == p0 <= Len(s) /\ s[p0] = "+"
        p1 == IF neg \/ pos THEN p0 + 1 ELSE p0
        ni == DigitRun(s, p1)
        p2 == p1 + ni
        dot == p2 <= Len(s) /\ s[p2] = "."
        nf == IF dot THEN DigitRun(s, p2 + 1) ELSE 0
        kf == IF nf > 4 THEN 4 ELSE nf
        mag == DigitsValue(s, p1, ni) * Scale
               + DigitsValue(s, p2 + 1, kf) * Pow10(4 - kf)
    IN  IF ni = 0 /\ nf = 0 THEN NaN
        ELSE Finite(IF neg THEN 0 - mag ELSE mag)

\* parseFloat(x) for any value: the argument is converted to a string first
ParseFloat(x) ==
    CASE x.t = "num" -> Finite(x.n)
      [] x.t = "str" -> ParseFloatStr(x.s)
      [] OTHER -> NaN

\* parseInt on a string: white space, optional sign, longest digit prefix
ParseIntStr(s) ==
    LET p0 == SpaceRun(s, 1) + 1
        neg == p0 <= Len(s) /\ s[p0] = "-"
        pos == p0 <= Len(s) /\ s[p0] = "+"
        p1 == IF neg \/ pos THEN p0 + 1 ELSE p0
        ni == DigitRun(s, p1)
        mag == DigitsValue(s, p1, ni)
    IN  IF ni = 0 THEN NaN ELSE Finite(IF neg THEN 0 - mag ELSE mag)

-----------------------------------------------------------------------------
(* string-similarity: compareTwoStrings (Dice coefficient on bigrams) *)

StripSpaces(s) == SelectSeq(s, LAMBDA c : ~IsSpace(c))

Bigrams(s) == [i \in 1..(Len(s) - 1) |-> <<s[i], s[i + 1]>>]

\* the sequence without its first occurrence of x
RECURSIVE RemoveFirst(_, _)
RemoveFirst(q, x) ==
    IF q = <<>> THEN <<>>
    ELSE IF Head(q) = x THEN Tail(q)
    ELSE <<Head(q)>> \o RemoveFirst(Tail(q), x)

InSeq(q, x) == \E i \in 1..Len(q) : q[i] = x

\* bigrams of the second string that still have a partner in the first
RECURSIVE IntersectionSize(_, _)
IntersectionSize(firstBigrams, secondBigrams) ==
    IF secondBigrams = <<>> THEN 0
    ELSE IF InSeq(firstBigrams, Head(secondBigrams))
         THEN 1 + IntersectionSize(RemoveFirst(firstBigrams, Head(secondBigrams)),
                                   Tail(secondBigrams))
         ELSE IntersectionSize(firstBigrams, Tail(secondBigrams))

\* the similarity as the fraction num/den, 0 <= num <= den
CompareTwoStrings(a, b) ==
    LET first == StripSpaces(a)
        second == StripSpaces(b)
    IN  IF first = second THEN [num |-> 1, den |-> 1]
        ELSE IF Len(first) < 2 \/ Len(second) < 2 THEN [num |-> 0, den |-> 1]
        ELSE [num |-> 2 * IntersectionSize(Bigrams(first), Bigrams(second)),
              den |-> Len(first) + Len(second) - 2]

\* (similarity * 100).toFixed(0)
PercentOf(sim) == (200 * sim.num + sim.den) \div (2 * sim.den)

-----------------------------------------------------------------------------
(* Validator *)

UNDEF == "undefined"

DefaultThreshold == 75

Msg(kind, args) == [kind |-> kind, args |-> args]

\* new Validator(opts): opts.threshold is None when the option is not given,
\* else Some(t) with t the threshold in hundredths; `x || 0.75` replaces
\* every falsy x, `x !== false` is true unless x is given as false.
ValidatorConstructor(opts) ==
    [nameSimilarityThreshold |->
         IF opts.threshold = None \/ opts.threshold[1] = 0
         THEN DefaultThreshold ELSE opts.threshold[1],
     allowMultiItemSameSeri |-> opts.allowMulti # Some(FALSE),
     strictMode |-> FALSE]

\* validateItemCode(excelCode, bcCode); threw is TRUE when toString is
\* called on null
validateItemCode(opts, excelCode, bcCode) ==
    IF excelCode.t = "null" \/ bcCode.t = "null"
    THEN [threw |-> TRUE, status |-> UNDEF, similarity |-> [num |-> 0, den |-> 1],
          message |-> None]
    ELSE
    LET excelNorm == ToUpperCase(Trim(excelCode.s))
        bcNorm == ToUpperCase(Trim(bcCode.s))
        similarity == CompareTwoStrings(excelNorm, bcNorm)
    IN  IF excelNorm = bcNorm
        THEN [threw |-> FALSE, status |-> "OK",
              similarity |-> [num |-> 1, den |-> 1], message |-> None]
        ELSE IF similarity.num * 100 >= opts.nameSimilarityThreshold * similarity.den
        THEN [threw |-> FALSE, status |-> "OK", similarity |-> similarity,
              message |-> Some(Msg("ItemCodeSimilar", <<PercentOf(similarity)>>))]
        ELSE [threw |-> FALSE, status |-> "NOT MATCH", similarity |-> similarity,
              message |-> Some(Msg("ItemCodeMismatch", <<excelCode, bcCode>>))]

\* variant: the limit test is strict
validateQty_StrictLimit(excelQty, bcQty) ==
    LET excelNum == ParseFloat(excelQty)
        bcNum == ParseFloat(bcQty)
    IN  IF excelNum.nan \/ bcNum.nan
        THEN [status |-> "ERROR", message |-> Some(Msg("InvalidQty", <<>>))]
        ELSE IF excelNum.v < bcNum.v
        THEN [status |-> "OK", message |-> None]
        ELSE [status |-> "OVER LIMIT",
              message |-> Some(Msg("QtyOverLimit", <<excelNum.v, bcNum.v>>))]

\* validateQty(excelQty, bcQty)
validateQty(excelQty, bcQty) ==
    LET excelNum == ParseFloat(excelQty)
        bcNum == ParseFloat(bcQty)
    IN  IF excelNum.nan \/ bcNum.nan
        THEN [status |-> "ERROR", message |-> Some(Msg("InvalidQty", <<>>))]
        ELSE IF excelNum.v <= bcNum.v
        THEN [status |-> "OK", message |-> None]
        ELSE [status |-> "OVER LIMIT",
              message |-> Some(Msg("QtyOverLimit", <<excelNum.v, bcNum.v>>))]

\* the result object of a catch block
ErrorResult(excelItem, kind) ==
    [rowNumber |-> excelItem.rowNumber,
     excelData |-> None,
     bcData |-> None,
     validation |-> [itemCode |-> UNDEF, qty |-> UNDEF, overall |-> "ERROR"],
     issues |-> <<Msg(kind, <<>>)>>]

\* variant: ERROR only when both field statuses are ERROR
OverallOf_BothError(itemCodeStatus, qtyStatus) ==
    IF itemCodeStatus = "OK" /\ qtyStatus = "OK" THEN "OK"
    ELSE IF itemCodeStatus = "ERROR" /\ qtyStatus = "ERROR" THEN "ERROR"
    ELSE "WARNING"

OverallOf(itemCodeStatus, qtyStatus) ==
    IF itemCodeStatus = "OK" /\ qtyStatus = "OK" THEN "OK"
    ELSE IF itemCodeStatus = "ERROR" \/ qtyStatus = "ERROR" THEN "ERROR"
    ELSE "WARNING"

\* the object validateItem returns for a row whose serial was found, built
\* from the two field validations
ItemResult(excelItem, excelData, bc, itemCodeValidation, qtyValidation) ==
    IF itemCodeValidation.threw
    THEN ErrorResult(excelItem, "ValidationError")
    ELSE [rowNumber |-> excelItem.rowNumber,
          excelData |-> Some(excelData),
          bcData |-> Some([kodeBrg |-> bc.kodeBrg, uraian |-> bc.uraian,
                           qty |-> bc.qty, satuan |-> bc.satuan,
                           seri |-> bc.seri]),
          validation |-> [itemCode |-> itemCodeValidation.status,
                          qty |-> qtyValidation.status,
                          overall |-> OverallOf(itemCodeValidation.status,
                                                qtyValidation.status)],
          issues |-> itemCodeValidation.message \o qtyValidation.message]

\* validateItem(excelItem, bcItem); bcItem is None for null
validateItem(opts, excelItem, bcItem) ==
    LET excelData == [itemCode |-> excelItem.itemCode,
                      itemName |-> excelItem.itemName,
                      qty |-> excelItem.qty,
                      seriBarang |-> excelItem.seriBarang]
    IN  IF bcItem = None
        THEN [rowNumber |-> excelItem.rowNumber,
              excelData |-> Some(excelData),
              bcData |-> None,
              validation |-> [itemCode |-> "ERROR", qty |-> "ERROR",
                              overall |-> "ERROR"],
              issues |-> <<Msg("SeriNotFound", <<excelItem.seriBarang>>)>>]
        ELSE ItemResult(excelItem, excelData, bcItem[1],
                        validateItemCode(opts, excelItem.itemCode, bcItem[1].kodeBrg),
                        validateQty(excelItem.qty, bcItem[1].qty))

\* variant: the callback of find does not compare the serial
findBySeri_AnyItem(items, seri) ==
    IF items = <<>> THEN None ELSE Some(Head(items))

\* PDFParser.findBySeri(seri): the first item with that serial, or null.
\* The serial of a reference row is a number, which parseInt leaves as it is.
RECURSIVE findBySeri(_, _)
findBySeri(items, seri) ==
    IF items = <<>> THEN None
    ELSE IF Head(items).seri = seri THEN Some(Head(items))
    ELSE findBySeri(Tail(items), seri)

GroupKey(item) == <<item.ajuNumber, item.seriBarang>>

\* Object.keys(groups): the keys in order of first insertion
RECURSIVE GroupKeys(_, _)
GroupKeys(items, seen) ==
    IF items = <<>> THEN seen
    ELSE GroupKeys(Tail(items),
                   IF InSeq(seen, GroupKey(Head(items))) THEN seen
                   ELSE Append(seen, GroupKey(Head(items))))

\* a + b on numbers
JSAdd(a, b) == IF a.t = "nan" \/ b.t = "nan" THEN NaNVal ELSE Num(a.n + b.n)

\* group.reduce((sum, item) => sum + item.qty, 0)
RECURSIVE SumQty(_)
SumQty(group) ==
    IF group = <<>> THEN Num(0)
    ELSE JSAdd(SumQty(SubSeq(group, 1, Len(group) - 1)), group[Len(group)].qty)

Annotated(item, qtyToCheck, isDuplicate, duplicateCount) ==
    [rowNumber |-> item.rowNumber, itemCode |-> item.itemCode,
     itemName |-> item.itemName, qty |-> item.qty,
     ajuNumber |-> item.ajuNumber, seriBarang |-> item.seriBarang,
     qtyToCheck |-> qtyToCheck, isDuplicate |-> isDuplicate,
     duplicateCount |-> duplicateCount]

ProcessGroup(group) ==
    IF Len(group) = 1
    THEN <<Annotated(group[1], Some(group[1].qty), Some(FALSE), None)>>
    ELSE [i \in 1..Len(group) |->
             Annotated(group[i], Some(SumQty(group)), Some(TRUE), Some(Len(group)))]

RECURSIVE ProcessGroups(_, _)
ProcessGroups(items, keys) ==
    IF keys = <<>> THEN <<>>
    ELSE ProcessGroup(SelectSeq(items, LAMBDA it : GroupKey(it) = Head(keys)))
         \o ProcessGroups(items, Tail(keys))

\* processDuplicateSeri(items)
processDuplicateSeri(opts, items) ==
    IF ~opts.allowMultiItemSameSeri
    THEN [i \in 1..Len(items) |-> Annotated(items[i], None, None, None)]
    ELSE ProcessGroups(items, GroupKeys(items, <<>>))

Count(q, Test(_)) == Len(SelectSeq(q, Test))

\* variant: the per-field counts do not test that the status is present
generateSummary_NoPresenceTest(rs) ==
    LET total == Len(rs)
        ok == Count(rs, LAMBDA r : r.validation.overall = "OK")
    IN  [total |-> total,
         ok |-> ok,
         warning |-> Count(rs, LAMBDA r : r.validation.overall = "WARNING"),
         error |-> Count(rs, LAMBDA r : r.validation.overall = "ERROR"),
         successRate |-> IF total > 0 THEN (ok * 20000 + total) \div (2 * total)
                         ELSE 0,
         issues |-> [itemCode |-> Count(rs, LAMBDA r : r.validation.itemCode # "OK"),
                     qty |-> Count(rs, LAMBDA r : r.validation.qty # "OK")]]

\* generateSummary(results); successRate in hundredths of a percent
generateSummary(rs) ==
    LET total == Len(rs)
        ok == Count(rs, LAMBDA r : r.validation.overall = "OK")
    IN  [total |-> total,
         ok |-> ok,
         warning |-> Count(rs, LAMBDA r : r.validation.overall = "WARNING"),
         error |-> Count(rs, LAMBDA r : r.validation.overall = "ERROR"),
         successRate |-> IF total > 0 THEN (ok * 20000 + total) \div (2 * total)
                         ELSE 0,
         issues |-> [itemCode |-> Count(rs, LAMBDA r :
                                     r.validation.itemCode # UNDEF
                                     /\ r.validation.itemCode # "OK"),
                     qty |-> Count(rs, LAMBDA r :
                                     r.validation.qty # UNDEF
                                     /\ r.validation.qty # "OK")]]

\* variant: the loop ends at the first row whose validation raised
RECURSIVE ValidateRows_StopOnError(_, _, _)
ValidateRows_StopOnError(opts, items, pdf) ==
    IF items = <<>> THEN <<>>
    ELSE LET r == validateItem(opts, Head(items),
                               findBySeri(pdf, Head(items).seriBarang))
         IN  IF r.excelData = None THEN <<r>>
             ELSE <<r>> \o ValidateRows_StopOnError(opts, Tail(items), pdf)

\* the loop of validateBatch, one iteration per reference row; findBySeri
\* and validateItem return normally, so the catch of the loop has nothing
\* to catch
RECURSIVE ValidateRows(_, _, _)
ValidateRows(opts, items, pdf) ==
    IF items = <<>> THEN <<>>
    ELSE <<validateItem(opts, Head(items), findBySeri(pdf, Head(items).seriBarang))>>
         \o ValidateRows(opts, Tail(items), pdf)

\* validateBatch(excelItems, pdfParser)
validateBatch(opts, items, pdf) ==
    LET rs == ValidateRows(opts, items, pdf)
    IN  [results |-> rs, summary |-> generateSummary(rs)]

-----------------------------------------------------------------------------
(* ExcelParser and ExcelWriter *)

FirstDataRow == 5

maxEmptyRows == 3

RemoveCommas(s) == SelectSeq(s, LAMBDA c : c # ",")

\* getCellValue(row, col): `cell.value || null`
getCellValue(ws, rowNum, col) ==
    LET v == ws[rowNum - FirstDataRow + 1][col]
    IN  IF v.t = "null" \/ (v.t = "str" /\ v.s = <<>>) \/ (v.t = "num" /\ v.n = 0)
        THEN Null ELSE v

\* x.toString() of a cell value that is not null
CellToString(v) == IF v.t = "num" THEN NatToString(v.n) ELSE v.s

\* the item object built from one row whose item code is not empty;
\* keep is the test `item.itemCode && item.seriBarang > 0`
ExcelRowItem(ws, rowNum) ==
    LET itemCode == getCellValue(ws, rowNum, "B")
        itemName == getCellValue(ws, rowNum, "C")
        qty == getCellValue(ws, rowNum, "J")
        ajuNumber == getCellValue(ws, rowNum, "AD")
        seriBarang == getCellValue(ws, rowNum, "AG")
        qtyParsed == IF qty.t = "num" THEN Finite(qty.n)
                     ELSE ParseFloatStr(RemoveCommas(qty.s))
        qtyNum == IF qty.t = "null" \/ qtyParsed.nan THEN 0 ELSE qtyParsed.v
        seriParsed == ParseIntStr(CellToString(seriBarang))
        seriNum == IF seriBarang.t = "null" \/ seriParsed.nan THEN 0
                   ELSE seriParsed.v
        item == [rowNumber |-> rowNum,
                 itemCode |-> Str(Trim(CellToString(itemCode))),
                 itemName |-> IF itemName.t = "null" THEN <<>>
                              ELSE Trim(CellToString(itemName)),
                 qty |-> Num(qtyNum),
                 ajuNumber |-> IF ajuNumber.t = "null" THEN <<>>
                               ELSE Trim(CellToString(ajuNumber)),
                 seriBarang |-> seriNum]
    IN  [item |-> item, keep |-> item.itemCode.s # <<>> /\ item.seriBarang > 0]

\* variant: a row with an item code does not reset the count of empty rows
RECURSIVE ExcelParseLoop_NoReset(_, _, _, _)
ExcelParseLoop_NoReset(ws, rowNum, emptyRowCount, items) ==
    IF ~(emptyRowCount < maxEmptyRows /\ rowNum <= Len(ws) + FirstDataRow - 1)
    THEN items
    ELSE LET itemCode == getCellValue(ws, rowNum, "B")
         IN  IF itemCode.t = "null" \/ Trim(CellToString(itemCode)) = <<>>
             THEN ExcelParseLoop_NoReset(ws, rowNum + 1, emptyRowCount + 1, items)
             ELSE LET r == ExcelRowItem(ws, rowNum)
                  IN  ExcelParseLoop_NoReset(ws, rowNum + 1, emptyRowCount,
                                             IF r.keep THEN Append(items, r.item)
                                             ELSE items)

\* the while loop of ExcelParser.parseItems, from row rowNum on
RECURSIVE ExcelParseLoop(_, _, _, _)
ExcelParseLoop(ws, rowNum, emptyRowCount, items) ==
    IF ~(emptyRowCount < maxEmptyRows /\ rowNum <= Len(ws) + FirstDataRow - 1)
    THEN items
    ELSE LET itemCode == getCellValue(ws, rowNum, "B")
         IN  IF itemCode.t = "null" \/ Trim(CellToString(itemCode)) = <<>>
             THEN ExcelParseLoop(ws, rowNum + 1, emptyRowCount + 1, items)
             ELSE LET r == ExcelRowItem(ws, rowNum)
                  IN  ExcelParseLoop(ws, rowNum + 1, 0,
                                     IF r.keep THEN Append(items, r.item) ELSE items)

\* ExcelParser.parseItems()
excelParseItems(ws) == ExcelParseLoop(ws, FirstDataRow, 0, <<>>)

NA == Str(<<"N", "/", "A">>)

\* the six cells ExcelWriter.writeResult puts in columns AH..AM of a row;
\* AM holds the issues, which the code joins with "; "
writeResult(validationResult) ==
    LET validation == validationResult.validation
        bcData == validationResult.bcData
    IN  [AH |-> IF validation.itemCode = UNDEF THEN "N/A" ELSE validation.itemCode,
         AI |-> IF validation.qty = UNDEF THEN "N/A" ELSE validation.qty,
         AJ |-> IF bcData # None THEN bcData[1].kodeBrg ELSE NA,
         AK |-> IF bcData # None THEN bcData[1].qty ELSE Num(0),
         AL |-> IF bcData # None THEN Str(bcData[1].satuan) ELSE NA,
         AM |-> validationResult.issues]

\* ExcelWriter.writeAllResults: the results are written in order
RECURSIVE writeAllResults(_, _)
writeAllResults(sheetCells, rs) ==
    IF rs = <<>> THEN sheetCells
    ELSE writeAllResults(
             [row \in DOMAIN sheetCells \cup {Head(rs).rowNumber} |->
                 IF row = Head(rs).rowNumber THEN writeResult(Head(rs))
                 ELSE sheetCells[row]],
             Tail(rs))

-----------------------------------------------------------------------------
(* PDFParser: item extraction                                              *)
(*                                                                         *)
(* fullText is a sequence of lines.  A line is a record whose kind says    *)
(* which of the parser's patterns the line holds:                          *)
(*   "keyword"   a table keyword such as LEMBAR LANJUTAN                   *)
(*   "marker"    <seri> Pos Tarif/HS                                       *)
(*   "kode"      Kode Brg: <code>                                          *)
(*   "dashQty"   - <qty>                                                   *)
(*   "dashUnit"  - <unit>                                                  *)
(*   "jumlah"    Jumlah: <qty> <unit>                                      *)
(*   "ocrItem"   <seri> <code> ...  with, when qty is not empty,           *)
(*               ... <qty> Piece (<unit>); code is the text after the      *)
(*               item number, which the item-line pattern matches          *)
(*   "ocrQty"    <qty> Piece (<unit>)                                      *)
(*   "other"     text that no pattern matches                              *)
(* The description (uraian) of an item is not modelled.                     *)
(***************************************************************************)

Line(kind, seri, code, qty, unit) ==
    [kind |-> kind, seri |-> seri, code |-> code, qty |-> qty, unit |-> unit]

OcrBlockCap == 10

AllDigits(s, a, b) == \A i \in a..b : IsDigit(s[i])

HasChar(s, c) == \E i \in 1..Len(s) : s[i] = c

RemoveChar(s, c) == SelectSeq(s, LAMBDA x : x # c)

\* s.replace(c, d) with a string pattern: the first occurrence only
RECURSIVE ReplaceFirst(_, _, _)
ReplaceFirst(s, c, d) ==
    IF s = <<>> THEN <<>>
    ELSE IF Head(s) = c THEN <<d>> \o Tail(s)
    ELSE <<Head(s)>> \o ReplaceFirst(Tail(s), c, d)

\* /^\d+\.\d{4,}$/
MatchesDecimalDot(s) ==
    \E p \in 2..Len(s) :
        /\ s[p] = "."
        /\ AllDigits(s, 1, p - 1)
        /\ Len(s) - p >= 4
        /\ AllDigits(s, p + 1, Len(s))

\* /^\d{1,3}\.\d{3}$/
MatchesThousandsDot(s) ==
    \E p \in 2..4 :
        /\ Len(s) = p + 3
        /\ s[p] = "."
        /\ AllDigits(s, 1, p - 1)
        /\ AllDigits(s, p + 1, Len(s))

\* /^\d{4}\.\d{2}\.\d{4}$/
MatchesThreeGroups(s) ==
    /\ Len(s) = 12
    /\ s[5] = "." /\ s[8] = "."
    /\ AllDigits(s, 1, 4) /\ AllDigits(s, 6, 7) /\ AllDigits(s, 9, 12)

NumberOfParse(p) == IF p.nan THEN NaNVal ELSE Num(p.v)

\* the leading \w+ of a token
WordPrefix(s) == SubSeq(s, 1, DigitRun(s, 1))

\* findTableSection(): a keyword of the list, or an item-like line
findTableSection(text) ==
    \/ \E i \in DOMAIN text : text[i].kind \in {"keyword", "marker"}
    \/ \E i \in DOMAIN text : text[i].kind = "ocrItem"

FirstIndex(q, Test(_)) ==
    IF \E i \in DOMAIN q : Test(q[i])
    THEN CHOOSE i \in DOMAIN q : Test(q[i]) /\ \A h \in 1..(i - 1) : ~Test(q[h])
    ELSE 0

\* /-\s*([\d.,]+)\s*\n\s*-\s*(\w+)/ matches at line i: a dash-prefixed
\* number, then a dash-prefixed line that starts with a word character
DashPairAt(block, i) ==
    /\ block[i].kind = "dashQty"
    /\ \/ block[i + 1].kind = "dashUnit"
       \/ block[i + 1].kind = "dashQty" /\ WordPrefix(block[i + 1].qty) # <<>>

\* the quantity string of Strategy A as a number
DigitalQty(qtyToken) ==
    ParseFloatStr(ReplaceFirst(RemoveChar(qtyToken, "."), ",", "."))

\* parseItemText(seri, itemText): the item, or None for null
parseItemText(seri, block) ==
    LET kodeAt == FirstIndex(block, LAMBDA l : l.kind = "kode")
        jumlahAt == FirstIndex([i \in 1..(Len(block) - 1) |-> i],
                               LAMBDA i : DashPairAt(block, i))
        altAt == FirstIndex(block, LAMBDA l : l.kind = "jumlah")
    IN  IF kodeAt = 0 THEN None
        ELSE IF jumlahAt = 0
        THEN IF altAt = 0 THEN None
             ELSE Some([seri |-> seri,
                        kodeBrg |-> Str(block[kodeAt].code),
                        uraian |-> <<>>,
                        qty |-> NumberOfParse(DigitalQty(block[altAt].qty)),
                        satuan |-> block[altAt].unit])
        ELSE IF DigitalQty(block[jumlahAt].qty).nan THEN None
        ELSE Some([seri |-> seri,
                   kodeBrg |-> Str(block[kodeAt].code),
                   uraian |-> <<>>,
                   qty |-> NumberOfParse(DigitalQty(block[jumlahAt].qty)),
                   satuan |-> IF block[jumlahAt + 1].kind = "dashUnit"
                              THEN block[jumlahAt + 1].unit
                              ELSE WordPrefix(block[jumlahAt + 1].qty)])

IsSep(c) == c = "." \/ c = ","

\* the ways \d{4}[.,]?\d{2,3}[.,]?\d{3,4} can split a token, in the order a
\* backtracking match tries them: each quantifier takes the most it can first
HsSplits ==
    [k \in 1..16 |-> [s1 |-> 1 - ((k - 1) \div 8),
                      g2 |-> 3 - (((k - 1) \div 4) % 2),
                      s2 |-> 1 - (((k - 1) \div 2) % 2),
                      g3 |-> 4 - ((k - 1) % 2)]]

SplitLen(sp) == 4 + sp.s1 + sp.g2 + sp.s2 + sp.g3

SplitMatches(t, sp) ==
    /\ Len(t) >= SplitLen(sp)
    /\ AllDigits(t, 1, 4)
    /\ sp.s1 = 1 => IsSep(t[5])
    /\ AllDigits(t, 5 + sp.s1, 4 + sp.s1 + sp.g2)
    /\ sp.s2 = 1 => IsSep(t[5 + sp.s1 + sp.g2])
    /\ AllDigits(t, 5 + sp.s1 + sp.g2 + sp.s2, SplitLen(sp))

\* match[2] of itemLinePattern on the text that follows the item number:
\* /\[?(\d{4}[.,]?\d{2,3}[.,]?\d{3,4}|\d{10})/, None when it does not match
ItemLineCapture(token) ==
    LET t == IF token # <<>> /\ Head(token) = "[" THEN Tail(token) ELSE token
        k == FirstIndex(HsSplits, LAMBDA sp : SplitMatches(t, sp))
    IN  IF k # 0 THEN Some(SubSeq(t, 1, SplitLen(HsSplits[k])))
        ELSE IF Len(t) >= 10 /\ AllDigits(t, 1, 10) THEN Some(SubSeq(t, 1, 10))
        ELSE None

\* variant: the brackets are not removed
NormalizeHsCode_KeepBrackets(hsCode) ==
    LET kodeBrg == hsCode
    IN  IF ~HasChar(kodeBrg, ".") /\ Len(kodeBrg) >= 10
        THEN SubSeq(kodeBrg, 1, 4) \o <<".">> \o SubSeq(kodeBrg, 5, Len(kodeBrg))
        ELSE IF MatchesThreeGroups(kodeBrg)
        THEN SubSeq(kodeBrg, 1, 7) \o SubSeq(kodeBrg, 9, 12)
        ELSE kodeBrg

\* the tariff code of Strategy B
NormalizeHsCode(hsCode) ==
    LET kodeBrg == RemoveChar(RemoveChar(hsCode, "["), "]")
    IN  IF ~HasChar(kodeBrg, ".") /\ Len(kodeBrg) >= 10
        THEN SubSeq(kodeBrg, 1, 4) \o <<".">> \o SubSeq(kodeBrg, 5, Len(kodeBrg))
        ELSE IF MatchesThreeGroups(kodeBrg)
        THEN SubSeq(kodeBrg, 1, 7) \o SubSeq(kodeBrg, 9, 12)
        ELSE kodeBrg

\* variant: a dot is a decimal point whatever follows it
OcrQty_DotAlwaysDecimal(qtyToken) ==
    LET qtyString ==
            IF HasChar(qtyToken, ".") /\ HasChar(qtyToken, ",")
            THEN ReplaceFirst(RemoveChar(qtyToken, "."), ",", ".")
            ELSE ReplaceFirst(qtyToken, ",", ".")
    IN  ParseFloatStr(qtyString)

\* the quantity string of Strategy B as a number
OcrQty(qtyToken) ==
    LET qtyString ==
            IF HasChar(qtyToken, ".") /\ HasChar(qtyToken, ",")
            THEN ReplaceFirst(RemoveChar(qtyToken, "."), ",", ".")
            ELSE IF MatchesDecimalDot(qtyToken) THEN qtyToken
            ELSE IF MatchesThousandsDot(qtyToken) THEN RemoveChar(qtyToken, ".")
            ELSE ReplaceFirst(qtyToken, ",", ".")
    IN  ParseFloatStr(qtyString)

HasOcrQty(l) == l.kind \in {"ocrItem", "ocrQty"} /\ l.qty # <<>>

\* parseOCRItemText(seri, hsCode, itemBlock): the item, or None for null
parseOCRItemText(seri, hsCode, block) ==
    LET qtyAt == FirstIndex(block, HasOcrQty)
    IN  IF qtyAt = 0 THEN None
        ELSE IF OcrQty(block[qtyAt].qty).nan THEN None
        ELSE Some([seri |-> seri,
                   kodeBrg |-> Str(NormalizeHsCode(hsCode)),
                   uraian |-> <<>>,
                   qty |-> NumberOfParse(OcrQty(block[qtyAt].qty)),
                   satuan |-> block[qtyAt].unit])

\* the index after the block that starts at line i: the next item line, the
\* end of the text, or the line at which the cap stops the scan
RECURSIVE OcrBlockEnd(_, _, _)
OcrBlockEnd(text, i, j) ==
    IF j <= Len(text) /\ text[j].kind # "ocrItem"
    THEN IF (j + 1) - i > OcrBlockCap THEN j + 1
         ELSE OcrBlockEnd(text, i, j + 1)
    ELSE j

\* variant: the scan of the lines ends at the first block that yields no item
RECURSIVE parseItemsFromOCRTable_StopAtFailure(_, _)
parseItemsFromOCRTable_StopAtFailure(text, i) ==
    IF i > Len(text) THEN <<>>
    ELSE IF text[i].kind = "ocrItem"
    THEN LET item == parseOCRItemText(text[i].seri, ItemLineCapture(text[i].code)[1],
                                      SubSeq(text, i, OcrBlockEnd(text, i, i + 1) - 1))
         IN  IF item = None THEN <<>>
             ELSE item \o parseItemsFromOCRTable_StopAtFailure(text, i + 1)
    ELSE parseItemsFromOCRTable_StopAtFailure(text, i + 1)

\* parseItemsFromOCRTable(): the items of the lines from i on
RECURSIVE parseItemsFromOCRTable(_, _)
parseItemsFromOCRTable(text, i) ==
    IF i > Len(text) THEN <<>>
    ELSE IF text[i].kind = "ocrItem"
    THEN parseOCRItemText(text[i].seri, ItemLineCapture(text[i].code)[1],
                          SubSeq(text, i, OcrBlockEnd(text, i, i + 1) - 1))
         \o parseItemsFromOCRTable(text, i + 1)
    ELSE parseItemsFromOCRTable(text, i + 1)

\* matchAll of the marker pattern: the indexes of the marker lines
Markers(text) == SelectSeq([i \in 1..Len(text) |-> i],
                           LAMBDA i : text[i].kind = "marker")

\* the loop of Strategy A over the markers from the k-th on
RECURSIVE ParseMarkedItems(_, _, _)
ParseMarkedItems(text, matches, k) ==
    IF k > Len(matches) THEN <<>>
    ELSE LET startIndex == matches[k]
             endIndex == IF k < Len(matches) THEN matches[k + 1] ELSE Len(text) + 1
         IN  parseItemText(text[startIndex].seri,
                           SubSeq(text, startIndex, endIndex - 1))
             \o ParseMarkedItems(text, matches, k + 1)

\* parseItems(): threw when no table section is found, else the items and
\* the strategies that were run
pdfParseItems(text) ==
    IF ~findTableSection(text)
    THEN [threw |-> TRUE, items |-> <<>>, strategies |-> <<>>]
    ELSE LET matches == Markers(text)
         IN  IF Len(matches) > 0
             THEN [threw |-> FALSE,
                   items |-> ParseMarkedItems(text, matches, 1),
                   strategies |-> <<"A">>]
             ELSE [threw |-> FALSE,
                   items |-> parseItemsFromOCRTable(text, 1),
                   strategies |-> <<"A", "B">>]

(***************************************************************************)
(* PDFParser.postProcessOCRText: the text is a sequence of characters      *)
(***************************************************************************)

NL == "\n"

\* \s
IsWhite(c) == c = " " \/ c = NL

\* Object.entries(phraseReplacements), in insertion order
phraseReplacements ==
    <<[wrong |-> <<"K", "o", "d", "e", " ", "8", "r", "g">>,
       correct |-> <<"K", "o", "d", "e", " ", "B", "r", "g">>],
      [wrong |-> <<"K", "o", "d", "e", " ", "8", "R", "G">>,
       correct |-> <<"K", "o", "d", "e", " ", "B", "r", "g">>],
      [wrong |-> <<"P", "o", "s", " ", "T", "a", "r", "i", "f", "I">>,
       correct |-> <<"P", "o", "s", " ", "T", "a", "r", "i", "f">>],
      [wrong |-> <<"P", "o", "s", " ", "T", "a", "r", "i", "f", "H", "S">>,
       correct |-> <<"P", "o", "s", " ", "T", "a", "r", "i", "f", "/", "H", "S">>],
      [wrong |-> <<"P", "o", "s", " ", "T", "a", "r", "i", "l">>,
       correct |-> <<"P", "o", "s", " ", "T", "a", "r", "i", "f">>],
      [wrong |-> <<"J", "u", "r", "n", "l", "a", "h">>,
       correct |-> <<"J", "u", "m", "l", "a", "h">>],
      [wrong |-> <<"P", "E", "M", "E", "R", "1", "T", "A", "H", "U", "A", "N">>,
       correct |-> <<"P", "E", "M", "B", "E", "R", "I", "T", "A", "H", "U", "A", "N">>],
      [wrong |-> <<"P", "E", "M", "8", "E", "R", "I", "T", "A", "H", "U", "A", "N">>,
       correct |-> <<"P", "E", "M", "B", "E", "R", "I", "T", "A", "H", "U", "A", "N">>],
      [wrong |-> <<"1", "M", "P", "O", "R">>,
       correct |-> <<"I", "M", "P", "O", "R">>],
      [wrong |-> <<"I", "M", "P", "0", "R">>,
       correct |-> <<"I", "M", "P", "O", "R">>],
      [wrong |-> <<"8", "A", "R", "A", "N", "G">>,
       correct |-> <<"B", "A", "R", "A", "N", "G">>],
      [wrong |-> <<"L", "E", "M", "R", "A", "R">>,
       correct |-> <<"L", "E", "M", "B", "A", "R">>],
      [wrong |-> <<"L", "A", "N", "J", "I", "J", "T", "A", "N">>,
       correct |-> <<"L", "A", "N", "J", "U", "T", "A", "N">>]>>

\* new RegExp(wrong, 'gi') matches at position p
MatchesAt(text, p, wrong) ==
    /\ p + Len(wrong) - 1 <= Len(text)
    /\ \A i \in 1..Len(wrong) : UpperOf(text[p + i - 1]) = UpperOf(wrong[i])

\* cleaned.replace(regex, correct) from position p on: the matches are
\* taken from left to right and the replacement is not scanned again
RECURSIVE ReplaceAllFrom(_, _, _, _)
ReplaceAllFrom(text, p, wrong, correct) ==
    IF p > Len(text) THEN <<>>
    ELSE IF MatchesAt(text, p, wrong)
    THEN correct \o ReplaceAllFrom(text, p + Len(wrong), wrong, correct)
    ELSE <<text[p]>> \o ReplaceAllFrom(text, p + 1, wrong, correct)

\* the loop over the entries from the k-th on
RECURSIVE ApplyPhrases(_, _)
ApplyPhrases(text, k) ==
    IF k > Len(phraseReplacements) THEN text
    ELSE ApplyPhrases(ReplaceAllFrom(text, 1, phraseReplacements[k].wrong,
                                     phraseReplacements[k].correct), k + 1)

RECURSIVE WhiteRun(_, _)
WhiteRun(text, p) ==
    IF p <= Len(text) /\ IsWhite(text[p]) THEN 1 + WhiteRun(text, p + 1) ELSE 0

RECURSIVE NewlineRun(_, _)
NewlineRun(text, p) ==
    IF p <= Len(text) /\ text[p] = NL THEN 1 + NewlineRun(text, p + 1) ELSE 0

\* cleaned.replace(/\s{2,}/g, ' ')
RECURSIVE CollapseSpaces(_, _)
CollapseSpaces(text, p) ==
    IF p > Len(text) THEN <<>>
    ELSE IF WhiteRun(text, p) >= 2
    THEN <<" ">> \o CollapseSpaces(text, p + WhiteRun(text, p))
    ELSE <<text[p]>> \o CollapseSpaces(text, p + 1)

\* cleaned.replace(/\n{4,}/g, '\n\n\n')
RECURSIVE LimitNewlines(_, _)
LimitNewlines(text, p) ==
    IF p > Len(text) THEN <<>>
    ELSE IF NewlineRun(text, p) >= 4
    THEN <<NL, NL, NL>> \o LimitNewlines(text, p + NewlineRun(text, p))
    ELSE <<text[p]>> \o LimitNewlines(text, p + 1)

\* text.split('\n')
RECURSIVE SplitLines(_)
SplitLines(text) ==
    IF \E p \in 1..Len(text) : text[p] = NL
    THEN LET p == CHOOSE p \in 1..Len(text) :
                      text[p] = NL /\ \A h \in 1..(p - 1) : text[h] # NL
         IN  <<SubSeq(text, 1, p - 1)>> \o SplitLines(SubSeq(text, p + 1, Len(text)))
    ELSE <<text>>

\* lines.join(sep)
RECURSIVE Join(_, _)
Join(lines, sep) ==
    IF lines = <<>> THEN <<>>
    ELSE IF Len(lines) = 1 THEN lines[1]
    ELSE lines[1] \o sep \o Join(Tail(lines), sep)

\* cleaned.split('\n').map(line => line.trim()).join('\n')
TrimLines(text) ==
    LET lines == SplitLines(text)
    IN  Join([i \in 1..Len(lines) |-> Trim(lines[i])], <<NL>>)

\* postProcessOCRText(text)
postProcessOCRText(text) ==
    TrimLines(LimitNewlines(CollapseSpaces(ApplyPhrases(text, 1), 1), 1))

(***************************************************************************)
(* PDFParser.load, loadFromBuffer and extractTextWithOCR                   *)
(*                                                                         *)
(* A page of pngPages is a record that says what the image libraries do    *)
(* with it: whether preprocessImage's sharp pipeline fails, and what       *)
(* Tesseract.recognize yields on the preprocessed and on the original      *)
(* image.  A recognition outcome either throws or carries the words (with  *)
(* their confidence) and the text of result.data.                          *)
(***************************************************************************)

MinTextLength == 100

batchSize == 3

minConfidence == 30

Outcome(throws, words, text) == [throws |-> throws, words |-> words, text |-> text]

Word(text, confidence) == [text |-> text, confidence |-> confidence]

\* variant: the length of the text is taken without trimming it
IsScannedText_Untrimmed(text) == Len(text) < MinTextLength

\* this.fullText.trim().length < 100
IsScannedText(text) == Len(Trim(text)) < MinTextLength

\* the words.forEach of processPageWithOCR
RECURSIVE FilterWords(_)
FilterWords(words) ==
    IF words = <<>> THEN <<>>
    ELSE (IF Head(words).confidence >= minConfidence
          THEN Head(words).text \o <<" ">> ELSE <<>>)
         \o FilterWords(Tail(words))

\* preprocessImage(page.content): the image handed to the recognition, the
\* original one when the pipeline fails
preprocessImage(page) == IF page.preprocessFails THEN "original" ELSE "processed"

\* variant: a page whose preprocessing fails is not recognized
processPageWithOCR_NoFallback(page) ==
    IF page.preprocessFails \/ page.onProcessed.throws THEN <<>>
    ELSE IF page.onProcessed.words # None
    THEN FilterWords(page.onProcessed.words[1])
    ELSE page.onProcessed.text

\* processPageWithOCR(page, pageNum, totalPages): the fragment of the page
processPageWithOCR(page) ==
    LET result == IF preprocessImage(page) = "original" THEN page.onOriginal
                  ELSE page.onProcessed
    IN  IF result.throws THEN <<>>
        ELSE IF result.words # None THEN FilterWords(result.words[1])
        ELSE result.text

\* variant: every page after page i is started at once
BatchPages_AllRemaining(pngPages, i) == (i + 1)..Len(pngPages)

\* the page numbers of the batch that starts after page i
BatchPages(pngPages, i) ==
    (i + 1)..(IF i + batchSize < Len(pngPages) THEN i + batchSize ELSE Len(pngPages))

\* the batch that starts after page i is in flight
BatchLaunched(d, i) ==
    [d EXCEPT !.i = i,
              !.inFlight = BatchPages(d.pngPages, i),
              !.batchResults = [k \in 1..Cardinality(BatchPages(d.pngPages, i)) |-> None]]

\* variant: the fragments of a batch are joined as their tasks completed
BatchText_CompletionOrder(d) ==
    LET done == SelectSeq(d.settled, LAMBDA k : k > d.i)
    IN  Join([n \in 1..Len(done) |-> d.batchResults[done[n] - d.i][1]], <<NL, NL>>)

\* batchResults.join('\n\n')
BatchText(d) ==
    Join([k \in 1..Len(d.batchResults) |-> d.batchResults[k][1]], <<NL, NL>>)

\* new PDFParser(pdfPath), with the state of an OCR run
NewParser ==
    [isScanned |-> FALSE, via |-> "", tempPdf |-> FALSE, ocrCalls |-> 0,
     pngPages |-> <<>>, pngFiles |-> {}, tempFolder |-> FALSE, i |-> 0,
     inFlight |-> {}, batchResults |-> <<>>, settled |-> <<>>, ocrText |-> <<>>,
     ocrLog |-> None]

(***************************************************************************)
(* OCRCleanup: a file of the logs directory is a record of the parts of    *)
(* its name and its modification time; times are in milliseconds           *)
(***************************************************************************)

DefaultMaxAge == 7

DefaultMaxFiles == 50

\* 24 * 60 * 60 * 1000: the milliseconds of a day
DayMs == 86400000

\* new OCRCleanup(options): `options.x || default`
OCRCleanupConstructor(o) ==
    [maxAge |-> IF o.maxAge = None \/ o.maxAge[1] = 0 THEN DefaultMaxAge
                ELSE o.maxAge[1],
     maxFiles |-> IF o.maxFiles = None \/ o.maxFiles[1] = 0 THEN DefaultMaxFiles
                  ELSE o.maxFiles[1],
     dryRun |-> IF o.dryRun = None THEN FALSE ELSE o.dryRun[1]]

\* file.startsWith('ocr-result-') && file.endsWith('.txt')
IsOcrResultFile(f) == f.prefix = "ocr-result-" /\ f.suffix = ".txt"

\* file.startsWith('temp-') && file.endsWith('.pdf')
IsTempPdfFile(f) == f.prefix = "temp-" /\ f.suffix = ".pdf"

\* one step of the stable sort: f goes behind the files that are not older
RECURSIVE InsertNewestFirst(_, _)
InsertNewestFirst(sorted, f) ==
    IF sorted = <<>> THEN <<f>>
    ELSE IF Head(sorted).mtime >= f.mtime
    THEN <<Head(sorted)>> \o InsertNewestFirst(Tail(sorted), f)
    ELSE <<f>> \o sorted

\* .sort((a, b) => b.stat.mtime - a.stat.mtime)
RECURSIVE SortNewestFirst(_)
SortNewestFirst(files) ==
    IF files = <<>> THEN <<>>
    ELSE InsertNewestFirst(SortNewestFirst(SubSeq(files, 1, Len(files) - 1)),
                           files[Len(files)])

\* the ocr-result files of the directory, newest first
OcrResultFiles(dir) == SortNewestFirst(SelectSeq(dir, IsOcrResultFile))

\* variant: a file of exactly maxAge days counts as old
DeletedByCleanup_AtMaxAge(files, clock, cleanup) ==
    {i \in 1..Len(files) :
        \/ clock - files[i].mtime >= cleanup.maxAge * DayMs
        \/ i - 1 >= cleanup.maxFiles}

\* the positions that the loop of cleanupOCRResults deletes: isOld ||
\* isBeyondLimit
DeletedByCleanup(files, clock, cleanup) ==
    {i \in 1..Len(files) :
        \/ clock - files[i].mtime > cleanup.maxAge * DayMs
        \/ i - 1 >= cleanup.maxFiles}

\* cleanupOCRResults(): the directory it leaves and the counts it returns
cleanupOCRResults(dir, clock, cleanup) ==
    LET files == OcrResultFiles(dir)
        deleted == DeletedByCleanup(files, clock, cleanup)
        gone == {files[i] : i \in deleted}
    IN  [dir |-> IF cleanup.dryRun THEN dir
                 ELSE SelectSeq(dir, LAMBDA f : f \notin gone),
         result |-> [deleted |-> Cardinality(deleted),
                     kept |-> Len(files) - Cardinality(deleted)]]

\* getStatistics(): the counts of the ocr-result files and of the temp PDFs
getStatistics(dir, clock, cleanup) ==
    LET ocrFiles == OcrResultFiles(dir)
        toDelete == Cardinality({i \in 1..Len(ocrFiles) :
                        \/ clock - ocrFiles[i].mtime > cleanup.maxAge * DayMs
                        \/ i - 1 >= cleanup.maxFiles})
        tempPDFs == SelectSeq(dir, IsTempPdfFile)
    IN  [ocrResults |-> [total |-> Len(ocrFiles),
                         toDelete |-> toDelete,
                         toKeep |-> Len(ocrFiles) - toDelete],
         tempPDFs |-> [total |-> Len(tempPDFs), toDelete |-> Len(tempPDFs)]]

(***************************************************************************)
(* retryWithBackoff: delays are in milliseconds                            *)
(***************************************************************************)

DefaultMaxRetries == 3

DefaultInitialDelay == 1000

DefaultMaxDelay == 10000

DefaultBackoffFactor == 2

\* the destructuring of the options, with its defaults
RetryOptions(o) ==
    [maxRetries |-> IF o.maxRetries = None THEN DefaultMaxRetries
                    ELSE o.maxRetries[1],
     initialDelay |-> IF o.initialDelay = None THEN DefaultInitialDelay
                      ELSE o.initialDelay[1],
     maxDelay |-> IF o.maxDelay = None THEN DefaultMaxDelay ELSE o.maxDelay[1],
     backoffFactor |-> IF o.backoffFactor = None THEN DefaultBackoffFactor
                       ELSE o.backoffFactor[1],
     onRetry |-> o.onRetry]

\* Math.min(a, b)
MathMin(a, b) == IF a < b THEN a ELSE b

\* delay = Math.min(delay * backoffFactor, maxDelay)
NextDelay(delay, o) == MathMin(delay * o.backoffFactor, o.maxDelay)

\* the state of a call before the loop: fnCalls, onRetryCalls and sleeps
\* record the calls the function makes
NewRetry(o) ==
    [attempt |-> 1, delay |-> o.initialDelay, lastError |-> None,
     fnCalls |-> 0, onRetryCalls |-> <<>>, sleeps |-> <<>>]

-----------------------------------------------------------------------------
(* Inputs *)

MaxItems == 2

MaxRefQty == 3

MaxSeri == 2

MaxSheetRows == 2

Qty(k) == k * Scale

CodeAB1 == Str(<<"A", "B", "1">>)

CodeAB2 == Str(<<"A", "B", "2">>)

CodeAB12 == Str(<<"A", "B", "1", "2">>)

CodeLower == Str(<<" ", "a", "b", "1">>)

CodeXY == Str(<<"X", "Y">>)

SeqsUpTo(S, n) == UNION {[1..k -> S] : k \in 0..n}

\* reference rows as a caller may hand them to the validator; a row may
\* lack its item code
RefFields ==
    [itemCode : {CodeAB1, CodeAB2, Null}, qty : {Num(Qty(k)) : k \in 2..MaxRefQty},
     ajuNumber : {<<"A">>, <<"B">>}, seriBarang : 1..MaxSeri]

RefItem(f, rowNum) ==
    [rowNumber |-> rowNum, itemCode |-> f.itemCode, itemName |-> <<"n">>,
     qty |-> f.qty, ajuNumber |-> f.ajuNumber, seriBarang |-> f.seriBarang]

RefItemLists ==
    {[i \in 1..Len(q) |-> RefItem(q[i], FirstDataRow + i - 1)] :
         q \in SeqsUpTo(RefFields, MaxItems)}

BcItem(seri, kodeBrg, qty) ==
    [seri |-> seri, kodeBrg |-> kodeBrg, uraian |-> <<"u">>, qty |-> qty,
     satuan |-> <<"P", "C", "E">>]

\* the item collections a PDFParser may hold after parseItems
BcItemLists ==
    {<<>>,
     <<BcItem(1, CodeAB1, Num(Qty(4)))>>,
     <<BcItem(1, CodeAB12, Num(Qty(2)))>>,
     <<BcItem(2, CodeXY, Num(Qty(3))), BcItem(1, CodeLower, Num(Qty(3)))>>,
     <<BcItem(1, CodeAB1, Num(Qty(2))), BcItem(1, CodeXY, Num(Qty(4))),
       BcItem(2, CodeAB2, NaNVal)>>}

OptionInputs ==
    [threshold : {None, Some(90)}, allowMulti : {None, Some(TRUE), Some(FALSE)}]

\* cell values of one worksheet row
SheetRows ==
    [B : {Null, Str(<<" ">>), Str(<<"A", "B", "1", " ">>)},
     C : {Str(<<"n">>)},
     J : {Null, Num(Qty(2)), Str(<<"3", ",", "5">>), Str(<<"x">>)},
     AD : {Str(<<"A">>)},
     AG : {Null, Num(1), Str(<<"2", "x">>), Str(<<"x">>)}]

Worksheets == SeqsUpTo(SheetRows, MaxSheetRows)

MaxScanRows == 7

\* rows of a worksheet with gaps: no item code, a blank item code, an item
\* with a serial number, an item without one
ScanRows ==
    [B : {Null, Str(<<" ">>), Str(<<"A", "B", "1", " ">>)},
     C : {Str(<<"n">>)},
     J : {Num(Qty(2))},
     AD : {Str(<<"A">>)},
     AG : {Num(1)}]
    \cup [B : {Str(<<"A", "B", "1", " ">>)}, C : {Str(<<"n">>)}, J : {Num(Qty(2))},
          AD : {Str(<<"A">>)}, AG : {Null}]

ScanWorksheets == SeqsUpTo(ScanRows, MaxScanRows)

MaxLogFiles == 3

\* the clock when the cleanup object is constructed
ClockStart == 8 * DayMs

\* the ages of the files of the logs directory
FileAges == {0, DayMs, 7 * DayMs, 8 * DayMs}

\* the k-th file of a directory listing
LogFile(k, kind, age) ==
    [prefix |-> kind[1], id |-> k, suffix |-> kind[2], mtime |-> ClockStart - age]

\* the listings of the logs directory: ocr-result files and temp PDFs
LogsDirs ==
    UNION {{[k \in 1..n |-> LogFile(k, kinds[k], ages[k])] :
                kinds \in [1..n -> {<<"ocr-result-", ".txt">>, <<"temp-", ".pdf">>}],
                ages \in [1..n -> FileAges]} : n \in 0..MaxLogFiles}

\* the options of new OCRCleanup(options)
CleanupOptions ==
    [maxAge : {None, Some(0), Some(1)},
     maxFiles : {None, Some(1), Some(2)},
     dryRun : {None, Some(TRUE)}]

MaxRetries == 3

\* the options of a call of retryWithBackoff; onRetry is a callback that
\* returns, or none
RetryInputs ==
    [maxRetries : {None} \cup {Some(n) : n \in 0..MaxRetries},
     initialDelay : {None, Some(500), Some(4000), Some(20000)},
     maxDelay : {None, Some(3000)},
     backoffFactor : {None, Some(3)},
     onRetry : {None, Some("callback")}]

\* the item collections of the documents that go with the worksheets
ReportBcItemLists ==
    {<<BcItem(1, CodeAB1, Num(Qty(4)))>>,
     <<BcItem(2, CodeXY, Num(Qty(3))), BcItem(1, CodeLower, Num(Qty(1)))>>}

MaxCodeLen == 3

MaxQtyLen == 3

MaxLines == 4

\* the threshold option of a validator, in hundredths
ThresholdInputs ==
    {None, Some(0 - 25), Some(0), Some(50), Some(67), Some(75), Some(100)}

CodeStrings == SeqsUpTo({"A", "b", " "}, MaxCodeLen)

QtyStrings(n) == SeqsUpTo({"1", "5", ".", "-", "x", " "}, n)

QtyNumbers == {Num(Qty(3000)), Num(Qty(3150)), Num(Qty(500)), Num(Qty(470)),
               Num(0), NaNVal, Null}

Q3150 == <<"3", ".", "1", "5", "0", ",", "0", "0", "0", "0">>

Q470 == <<"4", "7", "0", ",", "0", "0", "0", "0">>

Q1 == <<"1", ".", "0", "0", "0", "0">>

PCE == <<"P", "C", "E">>

\* the lines a document text is made of
TextLines ==
    {Line("keyword", 0, <<>>, <<>>, <<>>),
     Line("marker", 1, <<>>, <<>>, <<>>),
     Line("marker", 2, <<>>, <<>>, <<>>),
     Line("kode", 0, <<"A", "B", "1">>, <<>>, <<>>),
     Line("dashQty", 0, <<>>, Q3150, <<>>),
     Line("dashUnit", 0, <<>>, <<>>, PCE),
     Line("jumlah", 0, <<>>, Q470, <<"K", "G">>),
     Line("ocrItem", 1, <<"[", "8", "4", "7", "9", ".", "9", "0", "3", "0", "0", "0">>,
          Q1, PCE),
     Line("ocrItem", 2, <<"8", "4", "7", "9", "9", "0", "3", "0", "0", "0">>,
          <<>>, <<>>),
     Line("ocrQty", 0, <<>>, <<"3", ".", "1", "5", "0">>, <<"S", "E", "T">>),
     Line("other", 0, <<>>, <<>>, <<>>)}

Texts == SeqsUpTo(TextLines, MaxLines)

MaxOcrQtyLen == 6

MaxChunks == 3

\* the pieces a recognized text is put together from
TextChunks ==
    {<<"P", "o", "s", " ", "T", "a", "r", "i", "f">>,
     <<"P", "o", "s">>,
     <<"J", "u", "r", "n", "l", "a", "h">>,
     <<"I">>,
     <<"l">>,
     <<" ">>,
     <<NL>>}

RECURSIVE Concat(_)
Concat(chunks) == IF chunks = <<>> THEN <<>> ELSE Head(chunks) \o Concat(Tail(chunks))

OcrTexts == {Concat(q) : q \in SeqsUpTo(TextChunks, MaxChunks)}

MaxPages == 4

\* a text of n characters none of which is white space
Letters(n) == [i \in 1..n |-> "x"]

\* the texts pdf-parse extracts: around the limit, with and without white
\* space at the ends
NativeTexts ==
    {lead \o Letters(n) \o trail :
        lead \in {<<>>, <<" ">>}, trail \in {<<>>, <<" ">>},
        n \in {MinTextLength - 1, MinTextLength}}

NoWords == Outcome(FALSE, Some(<<>>), <<>>)

\* page images: one that is recognized well, one with a word below the
\* confidence limit, one whose recognition throws, and one that the
\* preprocessing fails on
PageImages ==
    {[preprocessFails |-> FALSE,
      onProcessed |-> Outcome(FALSE, Some(<<Word(<<"a">>, 90)>>), <<"a">>),
      onOriginal |-> NoWords],
     [preprocessFails |-> FALSE,
      onProcessed |-> Outcome(FALSE, Some(<<Word(<<"b">>, minConfidence),
                                            Word(<<"c">>, minConfidence - 1)>>),
                              <<"b", " ", "c">>),
      onOriginal |-> NoWords],
     [preprocessFails |-> FALSE,
      onProcessed |-> Outcome(TRUE, None, <<>>),
      onOriginal |-> Outcome(TRUE, None, <<>>)],
     [preprocessFails |-> TRUE,
      onProcessed |-> NoWords,
      onOriginal |-> Outcome(FALSE, None, <<"d">>)]}

\* the documents: the text pdf-parse extracts, the pages pdfToPng renders,
\* or a document that pdfToPng fails on
Documents ==
    {[text |-> t, pages |-> p, rasterFails |-> FALSE] :
        t \in NativeTexts, p \in SeqsUpTo(PageImages, MaxPages)}
    \cup {[text |-> t, pages |-> <<>>, rasterFails |-> TRUE] : t \in NativeTexts}

\* the pages of a scanned document that is loaded next to another one
ScannedPages ==
    {[k \in 1..n |-> [preprocessFails |-> FALSE,
                      onProcessed |-> Outcome(FALSE, Some(<<Word(<<"a">>, 90)>>),
                                              <<"a">>),
                      onOriginal |-> NoWords]] : n \in 1..MaxPages}

Hs8479 == <<"8", "4", "7", "9">>

\* tariff tokens as they stand after an item number: an optional bracket
\* and three digit groups with or without separators
HsTokens ==
    {b \o Hs8479 \o s1 \o g2 \o s2 \o g3 :
        b \in {<<>>, <<"[">>},
        s1 \in {<<>>, <<".">>, <<",">>},
        g2 \in {<<"9", "0">>, <<"9", "0", "3">>},
        s2 \in {<<>>, <<".">>, <<",">>},
        g3 \in {<<"0", "0", "0">>, <<"3", "0", "0", "0">>}}

\* quantity tokens, the ([\d.,]+) of the quantity pattern
OcrQtyTokens ==
    (SeqsUpTo({"1", "0", ".", ","}, MaxOcrQtyLen) \ {<<>>}) \cup {Q1, Q3150, Q470}

\* the tariff token and the quantity token of an item block, and the layout
\* of the block: one line of the table layout, or a marker with a code line
\* and either the dash-prefixed or the labeled quantity
OcrItemInputs ==
    {[hsCode |-> h, qty |-> Q1, layout |-> "table"] : h \in HsTokens}
    \cup {[hsCode |-> Hs8479 \o <<".", "9", "0", "3", "0", "0", "0">>, qty |-> q,
           layout |-> l] :
              q \in OcrQtyTokens, l \in {"table", "dash", "label"}}

\* the text of a document that holds the one item block
BlockText(c) ==
    CASE c.layout = "table" -> <<Line("ocrItem", 1, c.hsCode, c.qty, PCE)>>
      [] c.layout = "dash" ->
            <<Line("marker", 1, <<>>, <<>>, <<>>),
              Line("kode", 0, <<"A", "B", "1">>, <<>>, <<>>),
              Line("dashQty", 0, <<>>, c.qty, <<>>),
              Line("dashUnit", 0, <<>>, <<>>, PCE)>>
      [] c.layout = "label" ->
            <<Line("marker", 1, <<>>, <<>>, <<>>),
              Line("kode", 0, <<"A", "B", "1">>, <<>>, <<>>),
              Line("jumlah", 0, <<>>, c.qty, PCE)>>

-----------------------------------------------------------------------------
(* The flows *)

\* nothing outside the validation flow is in use
NoHost ==
    /\ logsDir = <<>>
    /\ now = 0
    /\ retry = <<>>
    /\ parsers = <<>>
    /\ ocrTemp = <<>>

Idle ==
    /\ doc = None
    /\ NoHost
    /\ worksheet = <<>>
    /\ cells = <<>>
    /\ fullText = <<>>
    /\ strategies = <<>>
    /\ call = None
    /\ ret = None

\* a validator has been constructed and a caller holds the reference rows
\* and the document's items
Init ==
    /\ pc = "parsed"
    /\ options \in {ValidatorConstructor(o) : o \in OptionInputs}
    /\ excelItems \in RefItemLists
    /\ pdfItems \in BcItemLists
    /\ processed = <<>>
    /\ results = <<>>
    /\ summary = None
    /\ Idle

\* const processedItems = validator.processDuplicateSeri(excelItems)
ProcessDuplicateSeri ==
    /\ pc = "parsed"
    /\ processed' = processDuplicateSeri(options, excelItems)
    /\ pc' = "processed"
    /\ UNCHANGED <<hostVars, doc, options, worksheet, excelItems, pdfItems, results, summary,
                   cells, fullText, strategies, call, ret>>

\* const validationResult = validator.validateBatch(processedItems, pdfParser)
ValidateBatch ==
    /\ pc = "processed"
    /\ LET r == validateBatch(options, processed, pdfItems)
       IN  /\ results' = r.results
           /\ summary' = Some(r.summary)
    /\ pc' = "validated"
    /\ UNCHANGED <<hostVars, doc, options, worksheet, excelItems, pdfItems, processed, cells,
                   fullText, strategies, call, ret>>

Next == ProcessDuplicateSeri \/ ValidateBatch

Spec == Init /\ [][Next]_vars

\* a validator is constructed from its options and validateItemCode is
\* called with two item codes
InitItemCode ==
    /\ pc = "called"
    /\ doc = None
    /\ NoHost
    /\ call \in {Some([opts |-> [threshold |-> t, allowMulti |-> None],
                        excelCode |-> Str(a), bcCode |-> Str(b)]) :
                     t \in ThresholdInputs, a \in CodeStrings, b \in CodeStrings}
    /\ options = ValidatorConstructor(call[1].opts)
    /\ ret = None
    /\ worksheet = <<>> /\ excelItems = <<>> /\ pdfItems = <<>> /\ processed = <<>>
    /\ results = <<>> /\ summary = None /\ cells = <<>> /\ fullText = <<>>
    /\ strategies = <<>>

\* validator.validateItemCode(excelCode, bcCode)
ValidateItemCode ==
    /\ pc = "called"
    /\ ret' = Some(validateItemCode(options, call[1].excelCode, call[1].bcCode))
    /\ pc' = "returned"
    /\ UNCHANGED <<hostVars, doc, options, worksheet, excelItems, pdfItems, processed, results,
                   summary, cells, fullText, strategies, call>>

NextItemCode == ValidateItemCode

SpecItemCode == InitItemCode /\ [][NextItemCode]_vars

\* validateQty is called with two values
InitQty ==
    /\ pc = "called"
    /\ doc = None
    /\ NoHost
    /\ call \in {Some([excelQty |-> a, bcQty |-> b]) :
                     a \in QtyNumbers \cup {Str(x) : x \in QtyStrings(MaxQtyLen)},
                     b \in QtyNumbers \cup {Str(x) : x \in QtyStrings(2)}}
    /\ options = ValidatorConstructor([threshold |-> None, allowMulti |-> None])
    /\ ret = None
    /\ worksheet = <<>> /\ excelItems = <<>> /\ pdfItems = <<>> /\ processed = <<>>
    /\ results = <<>> /\ summary = None /\ cells = <<>> /\ fullText = <<>>
    /\ strategies = <<>>

\* validator.validateQty(excelQty, bcQty)
ValidateQty ==
    /\ pc = "called"
    /\ ret' = Some(validateQty(call[1].excelQty, call[1].bcQty))
    /\ pc' = "returned"
    /\ UNCHANGED <<hostVars, doc, options, worksheet, excelItems, pdfItems, processed, results,
                   summary, cells, fullText, strategies, call>>

NextQty == ValidateQty

SpecQty == InitQty /\ [][NextQty]_vars

\* a PDFParser holds the text of a loaded document
InitParse ==
    /\ pc = "loaded"
    /\ doc = None
    /\ NoHost
    /\ fullText \in Texts
    /\ pdfItems = <<>>
    /\ strategies = <<>>
    /\ options = ValidatorConstructor([threshold |-> None, allowMulti |-> None])
    /\ worksheet = <<>> /\ excelItems = <<>> /\ processed = <<>> /\ results = <<>>
    /\ summary = None /\ cells = <<>> /\ call = None /\ ret = None

\* parser.parseItems() returns the items
PdfParseItems ==
    /\ pc = "loaded"
    /\ ~pdfParseItems(fullText).threw
    /\ pdfItems' = pdfParseItems(fullText).items
    /\ strategies' = pdfParseItems(fullText).strategies
    /\ pc' = "returned"
    /\ UNCHANGED <<hostVars, doc, options, worksheet, excelItems, processed, results, summary,
                   cells, fullText, call, ret>>

\* parser.parseItems() throws: no table section in the text
PdfParseItemsFails ==
    /\ pc = "loaded"
    /\ pdfParseItems(fullText).threw
    /\ pc' = "failed"
    /\ UNCHANGED <<hostVars, doc, options, worksheet, excelItems, pdfItems, processed, results,
                   summary, cells, fullText, strategies, call, ret>>

NextParse == PdfParseItems \/ PdfParseItemsFails

SpecParse == InitParse /\ [][NextParse]_vars

MaxFiller == 11

\* n lines that hold neither an item nor a quantity
Filler(n) == [k \in 1..n |-> Line("other", 0, <<>>, <<>>, <<>>)]

\* texts of the table layout: an item line without a quantity, lines that
\* hold nothing, and then up to two lines that may hold a quantity or the
\* next item; and texts without any item line
BlockTexts ==
    {<<Line("ocrItem", 1, <<"8", "4", "7", "9", "9", "0", "3", "0", "0", "0">>,
            <<>>, <<>>)>> \o Filler(n) \o tail :
        n \in 0..MaxFiller,
        tail \in SeqsUpTo({Line("ocrQty", 0, <<>>, <<"3", ".", "1", "5", "0">>,
                                <<"S", "E", "T">>),
                           Line("ocrItem", 2, <<"[", "8", "4", "7", "9", ".", "9", "0",
                                                "3", "0", "0", "0">>, Q1, PCE),
                           Line("other", 0, <<>>, <<>>, <<>>)}, 2)}
    \cup {Filler(n) : n \in 1..MaxFiller}

\* a scanned document whose text is a table with a long item block
InitOcrBlock ==
    /\ pc = "loaded"
    /\ doc = None
    /\ NoHost
    /\ fullText \in BlockTexts
    /\ pdfItems = <<>>
    /\ strategies = <<>>
    /\ options = ValidatorConstructor([threshold |-> None, allowMulti |-> None])
    /\ worksheet = <<>> /\ excelItems = <<>> /\ processed = <<>> /\ results = <<>>
    /\ summary = None /\ cells = <<>> /\ call = None /\ ret = None

NextOcrBlock == PdfParseItems \/ PdfParseItemsFails

SpecOcrBlock == InitOcrBlock /\ [][NextOcrBlock]_vars

\* a document whose text is one item block
InitOcrItem ==
    /\ pc = "block"
    /\ doc = None
    /\ NoHost
    /\ call \in {Some(c) : c \in OcrItemInputs}
    /\ fullText = BlockText(call[1])
    /\ pdfItems = <<>>
    /\ strategies = <<>>
    /\ options = ValidatorConstructor([threshold |-> None, allowMulti |-> None])
    /\ worksheet = <<>> /\ excelItems = <<>> /\ processed = <<>> /\ results = <<>>
    /\ summary = None /\ cells = <<>> /\ ret = None

\* parser.parseOCRItemText(seri, hsCode, itemBlock) on the line
ParseOCRItemText ==
    /\ pc = "block"
    /\ call[1].layout = "table"
    /\ ret' = Some(parseOCRItemText(fullText[1].seri, call[1].hsCode, fullText))
    /\ pc' = "parsed"
    /\ UNCHANGED <<hostVars, doc, options, worksheet, excelItems, pdfItems, processed, results,
                   summary, cells, fullText, strategies, call>>

\* parser.parseItemsFromOCRTable() on the text
ParseItemsFromOCRTable ==
    /\ pc = "block"
    /\ call[1].layout = "table"
    /\ pdfItems' = parseItemsFromOCRTable(fullText, 1)
    /\ pc' = "tableParsed"
    /\ UNCHANGED <<hostVars, doc, options, worksheet, excelItems, processed, results, summary,
                   cells, fullText, strategies, call, ret>>

\* parser.parseItems() on the text of a marked block
ParseItemsOfBlock ==
    /\ pc = "block"
    /\ call[1].layout # "table"
    /\ ~pdfParseItems(fullText).threw
    /\ pdfItems' = pdfParseItems(fullText).items
    /\ strategies' = pdfParseItems(fullText).strategies
    /\ pc' = "blockParsed"
    /\ UNCHANGED <<hostVars, doc, options, worksheet, excelItems, processed, results,
                   summary, cells, fullText, call, ret>>

NextOcrItem == ParseOCRItemText \/ ParseItemsFromOCRTable \/ ParseItemsOfBlock

SpecOcrItem == InitOcrItem /\ [][NextOcrItem]_vars

\* a recognized text is about to be normalized
InitNormalize ==
    /\ pc = "raw"
    /\ doc = None
    /\ NoHost
    /\ call \in {Some(t) : t \in OcrTexts}
    /\ ret = None
    /\ fullText = <<>>
    /\ pdfItems = <<>>
    /\ strategies = <<>>
    /\ options = ValidatorConstructor([threshold |-> None, allowMulti |-> None])
    /\ worksheet = <<>> /\ excelItems = <<>> /\ processed = <<>> /\ results = <<>>
    /\ summary = None /\ cells = <<>>

\* ocrText = this.postProcessOCRText(ocrText)
PostProcessOCRText ==
    /\ pc = "raw"
    /\ ret' = Some(postProcessOCRText(call[1]))
    /\ pc' = "normalized"
    /\ UNCHANGED <<hostVars, doc, options, worksheet, excelItems, pdfItems, processed, results,
                   summary, cells, fullText, strategies, call>>

\* postProcessOCRText applied to its own result
PostProcessOCRTextAgain ==
    /\ pc = "normalized"
    /\ ret' = Some(postProcessOCRText(ret[1]))
    /\ pc' = "renormalized"
    /\ UNCHANGED <<hostVars, doc, options, worksheet, excelItems, pdfItems, processed, results,
                   summary, cells, fullText, strategies, call>>

NextNormalize == PostProcessOCRText \/ PostProcessOCRTextAgain

SpecNormalize == InitNormalize /\ [][NextNormalize]_vars

\* a PDFParser has been constructed for a document
InitLoad ==
    /\ pc = "constructed"
    /\ call \in {Some(d) : d \in Documents}
    /\ doc = NewParser
    /\ NoHost
    /\ fullText = <<>>
    /\ ret = None
    /\ pdfItems = <<>>
    /\ strategies = <<>>
    /\ options = ValidatorConstructor([threshold |-> None, allowMulti |-> None])
    /\ worksheet = <<>> /\ excelItems = <<>> /\ processed = <<>> /\ results = <<>>
    /\ summary = None /\ cells = <<>>

LoadUnchanged ==
    UNCHANGED <<hostVars, options, worksheet, excelItems, pdfItems, processed,
                results, summary, cells, strategies, call, ret>>

\* parser.load(), up to the call of extractTextWithOCR
Load ==
    /\ pc = "constructed"
    /\ fullText' = call[1].text
    /\ IF IsScannedText(call[1].text)
       THEN /\ doc' = [doc EXCEPT !.via = "load", !.isScanned = TRUE,
                                  !.ocrCalls = doc.ocrCalls + 1]
            /\ pc' = "ocr"
       ELSE /\ doc' = [doc EXCEPT !.via = "load"]
            /\ pc' = "loaded"
    /\ LoadUnchanged

\* parser.loadFromBuffer(buffer), up to the call of extractTextWithOCR
LoadFromBuffer ==
    /\ pc = "constructed"
    /\ fullText' = call[1].text
    /\ IF IsScannedText(call[1].text)
       THEN /\ doc' = [doc EXCEPT !.via = "buffer", !.isScanned = TRUE,
                                  !.tempPdf = TRUE,
                                  !.ocrCalls = doc.ocrCalls + 1]
            /\ pc' = "ocr"
       ELSE /\ doc' = [doc EXCEPT !.via = "buffer"]
            /\ pc' = "loaded"
    /\ LoadUnchanged

\* extractTextWithOCR(), up to the start of the first batch: pdfToPng
\* renders the pages into the temp folder, or throws
ExtractTextWithOCR ==
    /\ pc = "ocr"
    /\ IF call[1].rasterFails
       THEN /\ doc' = [doc EXCEPT !.tempFolder = TRUE]
            /\ pc' = "failed"
       ELSE LET d == [doc EXCEPT !.tempFolder = TRUE,
                                 !.pngPages = call[1].pages,
                                 !.pngFiles = 1..Len(call[1].pages),
                                 !.ocrText = <<>>]
            IN  IF Len(d.pngPages) > 0
                THEN doc' = BatchLaunched(d, 0) /\ pc' = "batch"
                ELSE doc' = d /\ pc' = "assembled"
    /\ UNCHANGED fullText
    /\ LoadUnchanged

\* the task of page k of the batch in flight completes
PageTaskCompletes(k) ==
    /\ pc = "batch"
    /\ k \in doc.inFlight
    /\ doc' = [doc EXCEPT !.inFlight = doc.inFlight \ {k},
                          !.batchResults[k - doc.i] =
                              Some(processPageWithOCR(doc.pngPages[k])),
                          !.settled = Append(doc.settled, k)]
    /\ UNCHANGED <<pc, fullText>>
    /\ LoadUnchanged

\* Promise.all of the batch is fulfilled: the fragments are appended, the
\* PNG files of the batch are deleted and the next batch starts
BatchCompletes ==
    /\ pc = "batch"
    /\ doc.inFlight = {}
    /\ LET d == [doc EXCEPT !.ocrText = doc.ocrText \o BatchText(doc),
                            !.pngFiles = doc.pngFiles
                                         \ BatchPages(doc.pngPages, doc.i)]
       IN  IF doc.i + batchSize < Len(doc.pngPages)
           THEN doc' = BatchLaunched(d, doc.i + batchSize) /\ pc' = "batch"
           ELSE doc' = [d EXCEPT !.i = doc.i + batchSize] /\ pc' = "assembled"
    /\ UNCHANGED fullText
    /\ LoadUnchanged

\* the rest of extractTextWithOCR and of the load that called it: the temp
\* folder is removed, the text is post-processed and stored, the result is
\* written to the log folder, and loadFromBuffer removes its temp file
OcrCompletes ==
    /\ pc = "assembled"
    /\ fullText' = postProcessOCRText(doc.ocrText)
    /\ doc' = [doc EXCEPT !.tempFolder = FALSE, !.pngFiles = {},
                          !.ocrLog = Some(postProcessOCRText(doc.ocrText)),
                          !.tempPdf = FALSE]
    /\ pc' = "loaded"
    /\ LoadUnchanged

NextLoad ==
    \/ Load
    \/ LoadFromBuffer
    \/ ExtractTextWithOCR
    \/ \E k \in doc.inFlight : PageTaskCompletes(k)
    \/ BatchCompletes
    \/ OcrCompletes

SpecLoad == InitLoad /\ [][NextLoad]_vars

\* the full run of a verification: the worksheet is loaded, the document is
\* parsed and the validator is constructed with the options of the run
InitReport ==
    /\ pc = "loaded"
    /\ doc = None
    /\ NoHost
    /\ options = ValidatorConstructor([threshold |-> Some(75),
                                       allowMulti |-> Some(TRUE)])
    /\ worksheet \in Worksheets
    /\ pdfItems \in ReportBcItemLists
    /\ excelItems = <<>>
    /\ processed = <<>>
    /\ results = <<>>
    /\ summary = None
    /\ cells = <<>>
    /\ fullText = <<>>
    /\ strategies = <<>>
    /\ call = None
    /\ ret = None

\* const excelItems = excelParser.parseItems()
ExcelParseItems ==
    /\ pc = "loaded"
    /\ excelItems' = excelParseItems(worksheet)
    /\ pc' = "parsed"
    /\ UNCHANGED <<hostVars, doc, options, worksheet, pdfItems, processed, results, summary,
                   cells, fullText, strategies, call, ret>>

\* writer.writeAllResults(validationResult.results)
WriteAllResults ==
    /\ pc = "validated"
    /\ cells' = writeAllResults(cells, results)
    /\ pc' = "written"
    /\ UNCHANGED <<hostVars, doc, options, worksheet, excelItems, pdfItems, processed, results,
                   summary, fullText, strategies, call, ret>>

\* a cleanup object has been constructed for a logs directory
InitCleanup ==
    /\ pc = "constructed"
    /\ call \in {Some(OCRCleanupConstructor(o)) : o \in CleanupOptions}
    /\ logsDir \in LogsDirs
    /\ now = ClockStart
    /\ ret = [stats |-> None, result |-> None]
    /\ retry = <<>> /\ parsers = <<>> /\ ocrTemp = <<>>
    /\ doc = None
    /\ options = ValidatorConstructor([threshold |-> None, allowMulti |-> None])
    /\ worksheet = <<>> /\ excelItems = <<>> /\ pdfItems = <<>>
    /\ processed = <<>> /\ results = <<>> /\ summary = None /\ cells = <<>>
    /\ fullText = <<>> /\ strategies = <<>>

CleanupUnchanged ==
    UNCHANGED <<retry, parsers, ocrTemp, doc, options, worksheet, excelItems,
                pdfItems, processed, results, summary, cells, fullText,
                strategies, call>>

\* const stats = await cleanup.getStatistics()
GetStatistics ==
    /\ pc = "constructed"
    /\ ret' = [ret EXCEPT !.stats = Some(getStatistics(logsDir, now, call[1]))]
    /\ pc' = "stats"
    /\ UNCHANGED <<logsDir, now>>
    /\ CleanupUnchanged

\* a day passes between the two calls
DayPasses ==
    /\ pc = "stats"
    /\ now' = now + DayMs
    /\ pc' = "later"
    /\ UNCHANGED <<logsDir, ret>>
    /\ CleanupUnchanged

\* const results = await cleanup.cleanupOCRResults()
CleanupOCRResults ==
    /\ pc \in {"constructed", "stats", "later"}
    /\ logsDir' = cleanupOCRResults(logsDir, now, call[1]).dir
    /\ ret' = [ret EXCEPT !.result =
                              Some(cleanupOCRResults(logsDir, now, call[1]).result)]
    /\ pc' = "cleaned"
    /\ UNCHANGED now
    /\ CleanupUnchanged

NextCleanup == GetStatistics \/ DayPasses \/ CleanupOCRResults

SpecCleanup == InitCleanup /\ [][NextCleanup]_vars

\* retryWithBackoff(fn, options) is called
InitRetry ==
    /\ pc = "called"
    /\ call \in {Some(RetryOptions(o)) : o \in RetryInputs}
    /\ retry = NewRetry(call[1])
    /\ ret = None
    /\ logsDir = <<>> /\ now = 0 /\ parsers = <<>> /\ ocrTemp = <<>>
    /\ doc = None
    /\ options = ValidatorConstructor([threshold |-> None, allowMulti |-> None])
    /\ worksheet = <<>> /\ excelItems = <<>> /\ pdfItems = <<>>
    /\ processed = <<>> /\ results = <<>> /\ summary = None /\ cells = <<>>
    /\ fullText = <<>> /\ strategies = <<>>

RetryUnchanged ==
    UNCHANGED <<logsDir, now, parsers, ocrTemp, doc, options, worksheet,
                excelItems, pdfItems, processed, results, summary, cells,
                fullText, strategies, call>>

\* the loop condition fails at once: throw lastError, which is undefined
RetryLoopSkipped ==
    /\ pc = "called"
    /\ ~(retry.attempt <= call[1].maxRetries)
    /\ pc' = "thrown"
    /\ UNCHANGED <<retry, ret>>
    /\ RetryUnchanged

\* `return await fn()`: the attempt succeeds with the value of this attempt
FnSucceeds ==
    /\ pc \in {"called", "slept"}
    /\ retry.attempt <= call[1].maxRetries
    /\ retry' = [retry EXCEPT !.fnCalls = retry.fnCalls + 1]
    /\ ret' = Some(retry.attempt)
    /\ pc' = "returned"
    /\ RetryUnchanged

\* fn() rejects with the error of this attempt: after the last attempt the
\* loop is left and lastError is thrown, else onRetry is awaited and the
\* sleep starts
FnFails ==
    /\ pc \in {"called", "slept"}
    /\ retry.attempt <= call[1].maxRetries
    /\ IF retry.attempt = call[1].maxRetries
       THEN /\ retry' = [retry EXCEPT !.fnCalls = retry.fnCalls + 1,
                                      !.lastError = Some(retry.attempt)]
            /\ pc' = "thrown"
       ELSE /\ retry' = [retry EXCEPT !.fnCalls = retry.fnCalls + 1,
                                      !.lastError = Some(retry.attempt),
                                      !.onRetryCalls =
                                          IF call[1].onRetry # None
                                          THEN Append(retry.onRetryCalls,
                                                      retry.attempt)
                                          ELSE retry.onRetryCalls,
                                      !.sleeps = Append(retry.sleeps, retry.delay)]
            /\ pc' = "sleeping"
    /\ UNCHANGED ret
    /\ RetryUnchanged

\* the sleep is over: the delay is raised and the next attempt starts
SleepEnds ==
    /\ pc = "sleeping"
    /\ retry' = [retry EXCEPT !.delay = NextDelay(retry.delay, call[1]),
                              !.attempt = retry.attempt + 1]
    /\ pc' = "slept"
    /\ UNCHANGED ret
    /\ RetryUnchanged

NextRetry == RetryLoopSkipped \/ FnSucceeds \/ FnFails \/ SleepEnds

SpecRetry == InitRetry /\ [][NextRetry]_vars

\* the ids of the two parsers
ParserIds == {1, 2}

\* two parsers have loaded a scanned document each and call
\* extractTextWithOCR; the temp folder may be left from an earlier run
InitTwoDocs ==
    /\ pc = "concurrent"
    /\ parsers \in [ParserIds -> {[pc |-> "ocr", pages |-> p, fullText |-> <<>>,
                                   doc |-> [NewParser EXCEPT !.via = "load",
                                                             !.isScanned = TRUE,
                                                             !.ocrCalls = 1]] :
                                      p \in ScannedPages}]
    /\ ocrTemp \in {[exists |-> e, files |-> {}] : e \in BOOLEAN}
    /\ logsDir = <<>> /\ now = 0 /\ retry = <<>>
    /\ doc = None
    /\ options = ValidatorConstructor([threshold |-> None, allowMulti |-> None])
    /\ worksheet = <<>> /\ excelItems = <<>> /\ pdfItems = <<>>
    /\ processed = <<>> /\ results = <<>> /\ summary = None /\ cells = <<>>
    /\ fullText = <<>> /\ strategies = <<>> /\ call = None /\ ret = None

TwoDocsUnchanged ==
    UNCHANGED <<pc, logsDir, now, retry, doc, options, worksheet, excelItems,
                pdfItems, processed, results, summary, cells, fullText,
                strategies, call, ret>>

\* the PNG files of parser p in the temp folder
FilesOf(p, pages) == {<<p, k>> : k \in pages}

\* extractTextWithOCR() of parser p up to the call of pdfToPng: the temp
\* folder is created unless it exists
RasterizationStarts(p) ==
    /\ parsers[p].pc = "ocr"
    /\ parsers' = [parsers EXCEPT ![p].pc = "rasterizing",
                                  ![p].doc.tempFolder = TRUE]
    /\ ocrTemp' = [ocrTemp EXCEPT !.exists = TRUE]
    /\ TwoDocsUnchanged

\* pdfToPng of parser p has written its files into the temp folder and the
\* first batch starts; when the folder is gone pdfToPng creates it again
RasterizationEnds(p) ==
    /\ parsers[p].pc = "rasterizing"
    /\ LET d == [parsers[p].doc EXCEPT !.pngPages = parsers[p].pages,
                                        !.pngFiles = 1..Len(parsers[p].pages),
                                        !.ocrText = <<>>]
       IN  parsers' = [parsers EXCEPT ![p].pc = "batch",
                                      ![p].doc = BatchLaunched(d, 0)]
    /\ ocrTemp' = [exists |-> TRUE,
                   files |-> ocrTemp.files
                             \cup FilesOf(p, 1..Len(parsers[p].pages))]
    /\ TwoDocsUnchanged

\* pdfToPng of parser p throws because the folder is gone
RasterizationFails(p) ==
    /\ parsers[p].pc = "rasterizing"
    /\ ~ocrTemp.exists
    /\ parsers' = [parsers EXCEPT ![p].pc = "failed"]
    /\ UNCHANGED ocrTemp
    /\ TwoDocsUnchanged

\* the task of page k of parser p completes: the page content is in memory
ConcurrentPageTaskCompletes(p, k) ==
    /\ parsers[p].pc = "batch"
    /\ k \in parsers[p].doc.inFlight
    /\ LET d == parsers[p].doc
       IN  parsers' = [parsers EXCEPT ![p].doc =
               [d EXCEPT !.inFlight = d.inFlight \ {k},
                         !.batchResults[k - d.i] =
                             Some(processPageWithOCR(d.pngPages[k])),
                         !.settled = Append(d.settled, k)]]
    /\ UNCHANGED ocrTemp
    /\ TwoDocsUnchanged

\* the batch of parser p is done: the fragments are appended, the files of
\* the batch that still exist are unlinked and the next batch starts
ConcurrentBatchCompletes(p) ==
    /\ parsers[p].pc = "batch"
    /\ parsers[p].doc.inFlight = {}
    /\ LET old == parsers[p].doc
           d == [old EXCEPT !.ocrText = old.ocrText \o BatchText(old),
                            !.pngFiles = old.pngFiles
                                         \ BatchPages(old.pngPages, old.i)]
       IN  /\ IF old.i + batchSize < Len(old.pngPages)
              THEN parsers' = [parsers EXCEPT
                                  ![p].doc = BatchLaunched(d, old.i + batchSize)]
              ELSE parsers' = [parsers EXCEPT
                                  ![p].doc = [d EXCEPT !.i = old.i + batchSize],
                                  ![p].pc = "assembled"]
           /\ ocrTemp' = [ocrTemp EXCEPT
                              !.files = ocrTemp.files
                                        \ FilesOf(p, BatchPages(old.pngPages, old.i))]
    /\ TwoDocsUnchanged

\* the rest of extractTextWithOCR of parser p: the temp folder is removed
\* with all it holds, the text is post-processed and stored
ConcurrentOcrCompletes(p) ==
    /\ parsers[p].pc = "assembled"
    /\ LET d == parsers[p].doc
       IN  parsers' = [parsers EXCEPT
               ![p].pc = "loaded",
               ![p].fullText = postProcessOCRText(d.ocrText),
               ![p].doc = [d EXCEPT !.tempFolder = FALSE, !.pngFiles = {},
                                    !.ocrLog = Some(postProcessOCRText(d.ocrText))]]
    /\ ocrTemp' = [exists |-> FALSE, files |-> {}]
    /\ TwoDocsUnchanged

NextTwoDocs ==
    \E p \in ParserIds :
        \/ RasterizationStarts(p)
        \/ RasterizationEnds(p)
        \/ RasterizationFails(p)
        \/ \E k \in parsers[p].doc.inFlight : ConcurrentPageTaskCompletes(p, k)
        \/ ConcurrentBatchCompletes(p)
        \/ ConcurrentOcrCompletes(p)

SpecTwoDocs == InitTwoDocs /\ [][NextTwoDocs]_vars

\* a worksheet with gaps is loaded
InitSheet ==
    /\ pc = "loaded"
    /\ doc = None
    /\ NoHost
    /\ options = ValidatorConstructor([threshold |-> None, allowMulti |-> None])
    /\ worksheet \in ScanWorksheets
    /\ pdfItems = <<>> /\ excelItems = <<>> /\ processed = <<>> /\ results = <<>>
    /\ summary = None /\ cells = <<>> /\ fullText = <<>> /\ strategies = <<>>
    /\ call = None /\ ret = None

NextSheet == ExcelParseItems

SpecSheet == InitSheet /\ [][NextSheet]_vars

NextReport ==
    ExcelParseItems \/ ProcessDuplicateSeri \/ ValidateBatch \/ WriteAllResults

SpecReport == InitReport /\ [][NextReport]_vars

-----------------------------------------------------------------------------
(* Reconciliation: properties of processDuplicateSeri and validateBatch *)

Validated == pc = "validated"

\* the reference row a result belongs to (row numbers are distinct)
ItemOfRow(rowNumber) ==
    excelItems[CHOOSE k \in DOMAIN excelItems : excelItems[k].rowNumber = rowNumber]

\* the rows that share the (shipment group, serial) of a row
GroupOf(item) == SelectSeq(excelItems, LAMBDA it : GroupKey(it) = GroupKey(item))

IsMatched(item) == \E j \in DOMAIN pdfItems : pdfItems[j].seri = item.seriBarang

\* validating the row raises an exception: the row is matched but carries
\* no item code
Raises(item) == IsMatched(item) /\ item.itemCode.t = "null"

HasFieldStatuses(r) == r.validation.itemCode # UNDEF /\ r.validation.qty # UNDEF

\* C1: with duplicate aggregation enabled, the quantity status of every
\* validated row of a (group, serial) group of size N>1 comes from comparing
\* the sum of the group's quantities with the quantity of the document item.
C1_GroupSumCompared ==
    (Validated /\ options.allowMultiItemSameSeri) =>
        \A i \in DOMAIN results :
            LET r == results[i]
                group == GroupOf(ItemOfRow(r.rowNumber))
                total == ParseFloat(SumQty(group))
            IN  (Len(group) > 1 /\ r.bcData # None /\ ~total.nan
                 /\ ~ParseFloat(r.bcData[1].qty).nan) =>
                    r.validation.qty =
                        IF total.v <= ParseFloat(r.bcData[1].qty).v
                        THEN "OK" ELSE "OVER LIMIT"

DuplicateAnnotation(r) ==
    IF {"isDuplicate", "duplicateCount", "qtyToCheck"} \subseteq DOMAIN r
    THEN Some(<<r.isDuplicate, r.duplicateCount, r.qtyToCheck>>)
    ELSE IF r.excelData # None
            /\ {"isDuplicate", "duplicateCount", "qtyToCheck"}
                   \subseteq DOMAIN r.excelData[1]
    THEN Some(<<r.excelData[1].isDuplicate, r.excelData[1].duplicateCount,
                r.excelData[1].qtyToCheck>>)
    ELSE None

\* C3: with duplicate aggregation enabled, every row of a (group, serial)
\* group of size N>1 has its own result, and that result is annotated as a
\* duplicate with the group size and the group's total quantity.
C3_ResultAnnotatedAsDuplicate ==
    (Validated /\ options.allowMultiItemSameSeri) =>
        \A k \in DOMAIN excelItems :
            LET group == GroupOf(excelItems[k])
            IN  Len(group) > 1 =>
                    \E i \in DOMAIN results :
                        /\ results[i].rowNumber = excelItems[k].rowNumber
                        /\ DuplicateAnnotation(results[i]) =
                               Some(<<Some(TRUE), Some(Len(group)), Some(SumQty(group))>>)

\* C4: a row whose serial matches no document item gets item-code status
\* ERROR, quantity status ERROR, overall ERROR, no document data and exactly
\* one issue, which names the missing serial.
C4_SeriNotFound ==
    Validated =>
        \A i \in DOMAIN results :
            LET r == results[i]
                item == ItemOfRow(r.rowNumber)
            IN  ~IsMatched(item) =>
                    /\ r.validation = [itemCode |-> "ERROR", qty |-> "ERROR",
                                       overall |-> "ERROR"]
                    /\ r.bcData = None
                    /\ Len(r.issues) = 1
                    /\ r.issues[1].kind = "SeriNotFound"
                    /\ r.issues[1].args = <<item.seriBarang>>

\* a document with items, one row that is matched and one that is not
C4_Witness ==
    /\ Validated
    /\ \E i, j \in DOMAIN results :
           /\ ~IsMatched(ItemOfRow(results[i].rowNumber))
           /\ results[i].validation.overall = "ERROR"
           /\ IsMatched(ItemOfRow(results[j].rowNumber))

\* what validating one row on its own gives when nothing is raised
StatusesOf(item) ==
    IF ~IsMatched(item)
    THEN [itemCode |-> "ERROR", qty |-> "ERROR", overall |-> "ERROR"]
    ELSE LET bc == pdfItems[CHOOSE j \in DOMAIN pdfItems :
                        /\ pdfItems[j].seri = item.seriBarang
                        /\ \A h \in 1..(j - 1) : pdfItems[h].seri # item.seriBarang]
             code == validateItemCode(options, item.itemCode, bc.kodeBrg).status
             qty == validateQty(item.qty, bc.qty).status
         IN  [itemCode |-> code, qty |-> qty,
              overall |-> IF code = "OK" /\ qty = "OK" THEN "OK"
                          ELSE IF qty = "ERROR" THEN "ERROR" ELSE "WARNING"]

\* C5: processDuplicateSeri followed by validateBatch returns exactly one
\* result per input row; a row whose validation raised an exception has
\* overall ERROR and one diagnostic issue, and every other row has the
\* statuses it gets when validated on its own.
C5_OneResultPerRow ==
    Validated =>
        /\ Len(results) = Len(excelItems)
        /\ \A k \in DOMAIN excelItems :
               Cardinality({i \in DOMAIN results :
                               results[i].rowNumber = excelItems[k].rowNumber}) = 1
        /\ \A i \in DOMAIN results :
               LET r == results[i]
                   item == ItemOfRow(r.rowNumber)
               IN  IF Raises(item)
                   THEN /\ r.validation.overall = "ERROR"
                        /\ Len(r.issues) = 1
                        /\ r.issues[1].kind \in {"ValidationError", "ValidationFailed"}
                   ELSE /\ r.validation = StatusesOf(item)
                        /\ r.excelData = Some([itemCode |-> item.itemCode,
                                               itemName |-> item.itemName,
                                               qty |-> item.qty,
                                               seriBarang |-> item.seriBarang])

\* a batch in which the first row raises and a later row validates normally
C5_Witness ==
    /\ Validated
    /\ Len(results) >= 2
    /\ Raises(ItemOfRow(results[1].rowNumber))
    /\ results[1].validation.overall = "ERROR"
    /\ \E i \in 2..Len(results) :
           /\ ~Raises(ItemOfRow(results[i].rowNumber))
           /\ results[i].validation.overall # "ERROR"

NumberOf(S, Test(_)) == Cardinality({i \in DOMAIN S : Test(S[i])})

\* C9: the summary reports total = number of results, ok / warning / error =
\* number of results with that overall status (they add up to total),
\* successRate = ok / total as a percentage (0 when there is no result), and
\* issues.itemCode / issues.qty = number of results that have an item-code /
\* quantity status other than OK.
C9_SummaryCounts ==
    Validated =>
        LET sm == summary[1]
        IN  /\ sm.total = Len(results)
            /\ sm.ok = NumberOf(results, LAMBDA r : r.validation.overall = "OK")
            /\ sm.warning = NumberOf(results, LAMBDA r : r.validation.overall = "WARNING")
            /\ sm.error = NumberOf(results, LAMBDA r : r.validation.overall = "ERROR")
            /\ sm.ok + sm.warning + sm.error = sm.total
            /\ sm.total = 0 => sm.successRate = 0
            /\ sm.total > 0 =>
                   /\ 2 * sm.total * sm.successRate <= 20000 * sm.ok + sm.total
                   /\ 20000 * sm.ok + sm.total < 2 * sm.total * (sm.successRate + 1)
            /\ sm.issues.itemCode =
                   NumberOf(results, LAMBDA r :
                       r.validation.itemCode \in {"ERROR", "NOT MATCH"})
            /\ sm.issues.qty =
                   NumberOf(results, LAMBDA r :
                       r.validation.qty \in {"ERROR", "OVER LIMIT"})

\* a summary over results of different overall statuses, one of them a
\* result without field statuses, another with a field status that is not OK
C9_Witness ==
    /\ Validated
    /\ Len(results) >= 2
    /\ summary[1].error > 0
    /\ summary[1].ok + summary[1].warning > 0
    /\ \E i \in DOMAIN results : ~HasFieldStatuses(results[i])
    /\ summary[1].issues.itemCode + summary[1].issues.qty > 0

-----------------------------------------------------------------------------
(* The report: ExcelParser.parseItems to ExcelWriter.writeAllResults *)

RowOf(k) == FirstDataRow + k - 1

HasItemCode(k) ==
    LET b == worksheet[k].B
    IN  b.t = "str" /\ Trim(b.s) # <<>>

\* the row was validated with both field statuses OK, NOT MATCH or OVER LIMIT
ValidatedRow(row) ==
    \E i \in DOMAIN results :
        /\ results[i].rowNumber = row
        /\ results[i].validation.itemCode \in {"OK", "NOT MATCH"}
        /\ results[i].validation.qty \in {"OK", "OVER LIMIT"}

\* C6: once the report is written, every worksheet row with an item code has
\* result cells, and a row that could not be validated shows the verdict
\* ERROR in its status cells.
C6_NoRowSilentlyOmitted ==
    pc = "written" =>
        \A k \in DOMAIN worksheet :
            HasItemCode(k) =>
                /\ RowOf(k) \in DOMAIN cells
                /\ ~ValidatedRow(RowOf(k)) =>
                       cells[RowOf(k)].AH = "ERROR" \/ cells[RowOf(k)].AI = "ERROR"

-----------------------------------------------------------------------------
(* validateItemCode and validateQty *)

Returned == pc = "returned"

\* the threshold the caller configured, 0.75 when none is configured
ConfiguredThreshold ==
    IF call[1].opts.threshold = None THEN 75 ELSE call[1].opts.threshold[1]

\* C7: equal normalized codes give OK without an issue; otherwise the result
\* is OK with the similarity percentage iff the similarity is at least the
\* configured threshold, and NOT MATCH with both codes iff it is below.
C7_ThresholdDecides ==
    Returned =>
        LET excelNorm == ToUpperCase(Trim(call[1].excelCode.s))
            bcNorm == ToUpperCase(Trim(call[1].bcCode.s))
            s == CompareTwoStrings(excelNorm, bcNorm)
            atLeast == s.num * 100 >= ConfiguredThreshold * s.den
            r == ret[1]
        IN  IF excelNorm = bcNorm
            THEN r.status = "OK" /\ r.message = None
            ELSE /\ atLeast <=>
                        /\ r.status = "OK"
                        /\ r.message # None
                        /\ r.message[1].kind = "ItemCodeSimilar"
                 /\ ~atLeast <=>
                        /\ r.status = "NOT MATCH"
                        /\ r.message # None
                        /\ r.message[1].kind = "ItemCodeMismatch"
                        /\ r.message[1].args = <<call[1].excelCode, call[1].bcCode>>

\* C8: validateQty returns ERROR with an invalid-quantity issue when one of
\* the values does not parse as a number; otherwise OK without an issue iff
\* reference <= extracted, and OVER LIMIT with both numbers iff reference >
\* extracted; 3000 against 3150 is OK and 500 against 470 is OVER LIMIT.
C8_QtyWithinLimit ==
    Returned =>
        LET excelNum == ParseFloat(call[1].excelQty)
            bcNum == ParseFloat(call[1].bcQty)
            r == ret[1]
        IN  /\ (excelNum.nan \/ bcNum.nan) =>
                   /\ r.status = "ERROR"
                   /\ r.message # None /\ r.message[1].kind = "InvalidQty"
            /\ (~excelNum.nan /\ ~bcNum.nan) =>
                   /\ r.status \in {"OK", "OVER LIMIT"}
                   /\ r.status = "OK" <=> excelNum.v <= bcNum.v
                   /\ r.status = "OK" => r.message = None
                   /\ r.status = "OVER LIMIT" =>
                          /\ r.message # None
                          /\ r.message[1].kind = "QtyOverLimit"
                          /\ r.message[1].args = <<excelNum.v, bcNum.v>>
            /\ (call[1].excelQty = Num(Qty(3000)) /\ call[1].bcQty = Num(Qty(3150)))
                   => r.status = "OK"
            /\ (call[1].excelQty = Num(Qty(500)) /\ call[1].bcQty = Num(Qty(470)))
                   => r.status = "OVER LIMIT"
            /\ (call[1].excelQty = Str(<<"1", ".", "5">>)
                /\ call[1].bcQty = Str(<<"1", "5">>)) => r.status = "OK"
            /\ (call[1].excelQty = Str(<<"5", "x">>)
                /\ call[1].bcQty = Str(<<"1", ".">>)) => r.status = "OVER LIMIT"
            /\ call[1].excelQty = Str(<<"x", "5">>) => r.status = "ERROR"

\* two text values that parse to the same number: equality is within the limit
C8_Witness ==
    /\ Returned
    /\ call[1].excelQty = Str(<<"5", ".">>)
    /\ call[1].bcQty = Str(<<" ", "5">>)
    /\ ret[1].status = "OK"

-----------------------------------------------------------------------------
(* PDFParser.parseItems *)

\* C10: parseItems returns zero items only after Strategy B was attempted on
\* the text.
C10_FallbackBeforeZeroItems ==
    (Returned /\ pdfItems = <<>>) => InSeq(strategies, "B")

\* the lines at which a candidate block starts: the marker lines when the
\* text has one, else the item lines of the table layout
IsCandidate(text, i) ==
    IF \E m \in DOMAIN text : text[m].kind = "marker"
    THEN text[i].kind = "marker"
    ELSE text[i].kind = "ocrItem"

Candidates(text) ==
    SelectSeq([i \in 1..Len(text) |-> i], LAMBDA i : IsCandidate(text, i))

\* the lines of the candidate block that starts at line i
BlockLines(text, i) ==
    {j \in i..Len(text) :
        /\ \A h \in (i + 1)..j : ~IsCandidate(text, h)
        /\ text[i].kind = "ocrItem" => j <= i + OcrBlockCap}

\* both required sub-fields are found in the block that starts at line i
BlockComplete(text, i) ==
    IF text[i].kind = "marker"
    THEN /\ \E j \in BlockLines(text, i) : text[j].kind = "kode"
         /\ \/ \E j \in BlockLines(text, i) : text[j].kind = "jumlah"
            \/ \E j \in BlockLines(text, i) :
                   /\ j + 1 \in BlockLines(text, i)
                   /\ DashPairAt(text, j)
    ELSE \E j \in BlockLines(text, i) : HasOcrQty(text[j])

\* C11: a candidate block in which the code or the quantity is not found
\* contributes no item, parseItems raises nothing because of it, and the
\* items are those of the other candidate blocks, in document order.
C11_IncompleteBlockSkipped ==
    /\ pc = "failed" => Candidates(fullText) = <<>>
    /\ Returned =>
          LET complete == SelectSeq(Candidates(fullText),
                                    LAMBDA i : BlockComplete(fullText, i))
          IN  /\ Len(pdfItems) = Len(complete)
              /\ \A n \in 1..Len(complete) :
                     pdfItems[n].seri = fullText[complete[n]].seri

\* the table layout: a block without a quantity between two blocks that
\* have one
C11_Witness ==
    /\ Returned
    /\ Len(fullText) = 4
    /\ \A i \in 1..3 : fullText[i].kind = "ocrItem"
    /\ BlockComplete(fullText, 1)
    /\ ~BlockComplete(fullText, 2)
    /\ BlockComplete(fullText, 3)
    /\ fullText[1].seri # fullText[3].seri
    /\ Len(pdfItems) = 2

-----------------------------------------------------------------------------
(* PDFParser.parseOCRItemText *)

HsCanonical == Hs8479 \o <<".", "9", "0", "3", "0", "0", "0">>

\* parseOCRItemText has returned an item
ParsedItem == pc = "parsed" /\ ret[1] # None

\* C12: the tariff codes 8479903000, 8479.903000, 8479.90.3000 and
\* [8479.903000 are all normalized to 8479.903000.
C12_TariffCodeNormalized ==
    (pc = "parsed"
     /\ call[1].qty = Q1
     /\ call[1].hsCode \in
            {Hs8479 \o <<"9", "0", "3", "0", "0", "0">>,
             Hs8479 \o <<".", "9", "0", "3", "0", "0", "0">>,
             Hs8479 \o <<".", "9", "0", ".", "3", "0", "0", "0">>,
             <<"[">> \o Hs8479 \o <<".", "9", "0", "3", "0", "0", "0">>})
    => (ret[1] # None /\ ret[1][1].kodeBrg = Str(HsCanonical))

C12_Witness ==
    /\ ParsedItem
    /\ call[1].hsCode = <<"[">> \o Hs8479 \o <<".", "9", "0", "3", "0", "0", "0">>
    /\ ret[1][1].kodeBrg = Str(HsCanonical)

\* NNNN.NNNNNN
IsCanonicalCode(s) ==
    /\ Len(s) = 11
    /\ s[5] = "."
    /\ \A i \in (1..11) \ {5} : IsDigit(s[i])

\* C13: every item of Strategy B has a tariff code of the form NNNN.NNNNNN.
C13_CanonicalTariffCode ==
    pc = "tableParsed" =>
        \A n \in 1..Len(pdfItems) : IsCanonicalCode(pdfItems[n].kodeBrg.s)

\* the number whose integer digits are int and whose fractional digits are
\* frac
Decimal(int, frac) ==
    LET k == IF Len(frac) > 4 THEN 4 ELSE Len(frac)
    IN  DigitsValue(int, 1, Len(int)) * Scale + DigitsValue(frac, 1, k) * Pow10(4 - k)

Before(q, p) == SubSeq(q, 1, p - 1)

After(q, p) == SubSeq(q, p + 1, Len(q))

IsDigits(s) == s # <<>> /\ \A i \in 1..Len(s) : IsDigit(s[i])

\* the number a quantity token stands for under the rules (a) to (d), for
\* the tokens to which one of the rules applies
QtyReading(q) ==
    {Decimal(RemoveChar(Before(q, p), "."), After(q, p)) :
        p \in {p \in 2..(Len(q) - 1) :
                  /\ q[p] = ","
                  /\ IsDigits(After(q, p))
                  /\ IsDigit(q[1])
                  /\ HasChar(Before(q, p), ".")
                  /\ \A i \in 1..(p - 1) : IsDigit(q[i]) \/ q[i] = "."}}
    \cup
    {Decimal(Before(q, p), After(q, p)) :
        p \in {p \in 2..(Len(q) - 4) :
                  q[p] = "." /\ IsDigits(Before(q, p)) /\ IsDigits(After(q, p))}}
    \cup
    {Decimal(Before(q, p) \o After(q, p), <<>>) :
        p \in {p \in 2..4 :
                  /\ Len(q) = p + 3
                  /\ q[p] = "." /\ IsDigits(Before(q, p)) /\ IsDigits(After(q, p))}}
    \cup
    {Decimal(Before(q, p), After(q, p)) :
        p \in {p \in 2..(Len(q) - 1) :
                  q[p] = "," /\ IsDigits(Before(q, p)) /\ IsDigits(After(q, p))}}

\* C14: the quantity of a Strategy B item is the number its token stands
\* for: with a dot and a comma the dots group thousands and the comma is the
\* decimal point; a lone dot followed by four or more digits is a decimal
\* point; a lone dot between 1-3 digits and exactly three digits groups
\* thousands; otherwise a comma is the decimal point.  1.0000 is 1,
\* 3.150,0000 is 3150 and 470,0000 is 470.
C14_QtyDisambiguation ==
    pc = "parsed" =>
        /\ \A v \in QtyReading(call[1].qty) :
               ret[1] # None /\ ret[1][1].qty = Num(v)
        /\ call[1].qty = Q1 => QtyReading(Q1) = {Qty(1)}
        /\ call[1].qty = Q3150 => QtyReading(Q3150) = {Qty(3150)}
        /\ call[1].qty = Q470 => QtyReading(Q470) = {Qty(470)}

C14_Witness ==
    /\ ParsedItem
    /\ call[1].qty = Q3150
    /\ ret[1][1].qty = Num(Qty(3150))

-----------------------------------------------------------------------------
(* PDFParser.postProcessOCRText *)

\* C15: postProcessOCRText applied to its own result returns that result.
C15_PostProcessIdempotent ==
    pc = "renormalized" => ret[1] = postProcessOCRText(call[1])

-----------------------------------------------------------------------------
(* PDFParser.load and extractTextWithOCR *)

\* the number of characters of a text that are not white space; the texts
\* have white space at their ends only
TrimmedLength(text) == Cardinality({i \in DOMAIN text : text[i] # " "})

\* C16: a load marks the document scanned and runs the OCR exactly when the
\* trimmed native text has fewer than 100 characters; otherwise the native
\* text is the final text, the OCR is not run and the document is not
\* marked scanned.
C16_ScannedIffShortText ==
    pc # "constructed" =>
        LET short == TrimmedLength(call[1].text) < MinTextLength
        IN  /\ doc.isScanned <=> short
            /\ doc.ocrCalls = (IF short THEN 1 ELSE 0)
            /\ ~short => /\ pc = "loaded"
                          /\ fullText = call[1].text
                          /\ doc.ocrLog = None

\* a text of 100 characters of which 99 remain when it is trimmed
C16_Witness ==
    /\ pc = "loaded"
    /\ Len(call[1].text) = MinTextLength
    /\ TrimmedLength(call[1].text) = MinTextLength - 1
    /\ doc.isScanned
    /\ doc.ocrLog # None

\* the pages of the batch in flight whose task has completed
CompletedPages ==
    IF pc = "batch" THEN BatchPages(doc.pngPages, doc.i) \ doc.inFlight ELSE {}

\* the fragment that the task of page k returned
FragmentOfPage(k) == doc.batchResults[k - doc.i][1]

\* what the recognition yields for the image that is handed to it
RecognitionOf(page) ==
    IF page.preprocessFails THEN page.onOriginal ELSE page.onProcessed

\* the retained words of a recognition that did not fail
RetainedText(result) ==
    IF result.words # None THEN FilterWords(result.words[1]) ELSE result.text

\* C17 as stated: a page whose recognition or whose preprocessing fails
\* contributes an empty fragment, the other pages contribute their own
\* text, and the extraction fails only when the document cannot be rendered.
C17_FailedPageEmptyFragment ==
    /\ pc = "failed" => call[1].rasterFails
    /\ \A k \in CompletedPages :
          LET page == doc.pngPages[k]
          IN  IF page.preprocessFails \/ RecognitionOf(page).throws
              THEN FragmentOfPage(k) = <<>>
              ELSE FragmentOfPage(k) = RetainedText(RecognitionOf(page))

\* C17: a page whose recognition fails contributes an empty fragment; a page
\* whose preprocessing fails is recognized from its original image; every
\* other page contributes its own text, and the extraction fails only when
\* the document cannot be rendered.
C17_RecognitionFailureEmptyFragment ==
    /\ pc = "failed" => call[1].rasterFails
    /\ \A k \in CompletedPages :
          LET page == doc.pngPages[k]
          IN  IF RecognitionOf(page).throws
              THEN FragmentOfPage(k) = <<>>
              ELSE FragmentOfPage(k) = RetainedText(RecognitionOf(page))

\* a batch in which the recognition of one page failed, the preprocessing
\* of another failed and a third page was recognized
C17_Witness ==
    /\ pc = "batch"
    /\ doc.inFlight = {}
    /\ \E k \in CompletedPages :
          RecognitionOf(doc.pngPages[k]).throws /\ FragmentOfPage(k) = <<>>
    /\ \E k \in CompletedPages :
          doc.pngPages[k].preprocessFails /\ FragmentOfPage(k) # <<>>
    /\ \E k \in CompletedPages :
          /\ ~doc.pngPages[k].preprocessFails
          /\ ~RecognitionOf(doc.pngPages[k]).throws
          /\ FragmentOfPage(k) # <<>>

RetainedTextOrEmpty(page) ==
    IF RecognitionOf(page).throws THEN <<>> ELSE RetainedText(RecognitionOf(page))

\* the fragments of the pages of the document, by page index
PageFragments ==
    [k \in 1..Len(call[1].pages) |-> RetainedTextOrEmpty(call[1].pages[k])]

\* C18: whatever the order in which the page tasks complete, the assembled
\* text holds the fragments of the pages in page order.
C18_FragmentsInPageOrder ==
    pc \in {"assembled", "loaded"} /\ doc.isScanned =>
        RemoveChar(doc.ocrText, NL) = Concat(PageFragments)

\* the task of page 1 completed last in its batch
C18_Witness ==
    /\ pc = "assembled"
    /\ Len(doc.settled) >= 3
    /\ doc.settled[3] = 1
    /\ PageFragments[1] # <<>>
    /\ PageFragments[2] # <<>>
    /\ PageFragments[1] # PageFragments[2]

\* C20: in the assembled text every two consecutive page fragments are
\* separated by a blank line.
C20_BlankLineBetweenPages ==
    pc = "assembled" => doc.ocrText = Join(PageFragments, <<NL, NL>>)

-----------------------------------------------------------------------------
(* Configuration *)

\* C19: no validator runs with a similarity threshold outside [0, 1]: a
\* validator constructed with such a threshold is rejected at construction.
C19_InvalidThresholdRejected ==
    Returned => options.nameSimilarityThreshold \in 0..100

-----------------------------------------------------------------------------
(* PDFParser.postProcessOCRText: white space *)

\* the newlines that remain of a text when every run of four or more
\* newlines is cut to three
RECURSIVE KeptNewlines(_, _)
KeptNewlines(text, p) ==
    IF p > Len(text) THEN 0
    ELSE IF text[p] = NL
    THEN (IF NewlineRun(text, p) >= 4 THEN 3 ELSE NewlineRun(text, p))
         + KeptNewlines(text, p + NewlineRun(text, p))
    ELSE KeptNewlines(text, p + 1)

NewlineCount(text) == Cardinality({i \in DOMAIN text : text[i] = NL})

\* C21: the result of postProcessOCRText has no run of two or more spaces,
\* keeps the runs of one to three newlines of the text and has three
\* newlines for every longer run, and none of its lines starts or ends
\* with white space.
C21_WhitespaceCollapse ==
    pc = "normalized" =>
        LET out == ret[1]
        IN  /\ \A i \in 1..(Len(out) - 1) : ~(out[i] = " " /\ out[i + 1] = " ")
            /\ NewlineCount(out) = KeptNewlines(call[1], 1)
            /\ \A i \in DOMAIN out :
                   out[i] = " " =>
                       /\ i > 1 /\ out[i - 1] # NL
                       /\ i < Len(out) /\ out[i + 1] # NL

-----------------------------------------------------------------------------
(* PDFParser.parseItems: quantities *)

\* C22: every item that parseItems produces, by either strategy and either
\* quantity pattern, has a quantity that is a number >= 0 and an integer
\* serial number.
C22_QtyIsNonNegativeNumber ==
    pc \in {"tableParsed", "blockParsed"} =>
        \A n \in 1..Len(pdfItems) :
            /\ pdfItems[n].qty.t = "num"
            /\ pdfItems[n].qty.n >= 0
            /\ pdfItems[n].seri \in Nat

\* C29: the quantity Strategy A gives for a token, by either of its
\* patterns, is the quantity Strategy B gives for the same token.
C29_SameQtyInBothStrategies ==
    pc = "blockParsed" =>
        LET b == parseOCRItemText(1, call[1].hsCode,
                                  <<Line("ocrItem", 1, call[1].hsCode,
                                         call[1].qty, PCE)>>)
        IN  (pdfItems # <<>> /\ b # None) => pdfItems[1].qty = b[1].qty

-----------------------------------------------------------------------------
(* PDFParser.parseItemsFromOCRTable: the block of an item *)

\* the index after a block that starts at line i and holds at most
\* OcrBlockCap lines, the item line included
RECURSIVE CappedBlockEnd(_, _, _)
CappedBlockEnd(text, i, j) ==
    IF j <= Len(text) /\ text[j].kind # "ocrItem" /\ j - i < OcrBlockCap
    THEN CappedBlockEnd(text, i, j + 1)
    ELSE j

\* the items of the lines from i on when every item line starts a block of
\* at most OcrBlockCap lines
RECURSIVE ItemsOfCappedBlocks(_, _)
ItemsOfCappedBlocks(text, i) ==
    IF i > Len(text) THEN <<>>
    ELSE IF text[i].kind = "ocrItem"
    THEN parseOCRItemText(text[i].seri, ItemLineCapture(text[i].code)[1],
                          SubSeq(text, i, CappedBlockEnd(text, i, i + 1) - 1))
         \o ItemsOfCappedBlocks(text, i + 1)
    ELSE ItemsOfCappedBlocks(text, i + 1)

\* C23: in Strategy B the block of an item is its matching line and the
\* lines after it up to the next matching line, at most 10 lines in all, and
\* every matching line starts a block: the items are the items of these
\* blocks.
C23_BlockCappedAtTenLines ==
    (pc = "returned" /\ strategies = <<"A", "B">>) =>
        pdfItems = ItemsOfCappedBlocks(fullText, 1)

-----------------------------------------------------------------------------
(* PDFParser.extractTextWithOCR: batches *)

\* the pages whose recognition task has started
SettledPages == {doc.settled[n] : n \in 1..Len(doc.settled)}

StartedPages == doc.inFlight \cup SettledPages

\* the batch of a page: pages 1..3 are batch 0, pages 4..6 batch 1, ...
BatchOf(k) == (k - 1) \div batchSize

\* C24: during extractTextWithOCR the page tasks in flight belong to one
\* batch and are at most 3; no task of a batch has started unless every task
\* of the batches before it has completed; batches run in page order.
C24_OneBatchInFlight ==
    doc # None =>
        /\ \A k, m \in doc.inFlight : BatchOf(k) = BatchOf(m)
        /\ Cardinality(doc.inFlight) <= batchSize
        /\ \A k \in StartedPages :
               \A m \in 1..Len(doc.pngPages) :
                   BatchOf(m) < BatchOf(k) => m \in SettledPages /\ m \notin doc.inFlight
        /\ \A n, m \in 1..Len(doc.settled) :
               n < m => BatchOf(doc.settled[n]) <= BatchOf(doc.settled[m])

\* the second batch is in flight
C24_Witness ==
    /\ pc = "batch"
    /\ doc.i = batchSize
    /\ doc.inFlight # {}

-----------------------------------------------------------------------------
(* PDFParser.extractTextWithOCR: raster files *)

\* C25: the PNG file of a page is gone as soon as the page has been
\* recognized, whether or not other pages of its batch are still in flight,
\* and after extractTextWithOCR has returned neither a PNG file nor the temp
\* folder is left.
C25_PageFileReleasedAfterRecognition ==
    doc # None =>
        /\ \A k \in SettledPages : k \notin doc.pngFiles
        /\ (pc = "loaded" /\ doc.isScanned) =>
               (doc.pngFiles = {} /\ ~doc.tempFolder)

-----------------------------------------------------------------------------
(* ExcelParser.parseItems: the end of the data *)

\* the item-code cell of the n-th data row is empty
EmptyCode(n) ==
    \/ worksheet[n].B.t = "null"
    \/ worksheet[n].B.t = "str" /\ Trim(worksheet[n].B.s) = <<>>

\* three consecutive rows with an empty item code lie before the n-th row
AfterThreeEmpty(n) ==
    \E m \in 1..(n - 3) : EmptyCode(m) /\ EmptyCode(m + 1) /\ EmptyCode(m + 2)

\* the n-th data row has produced an item
RowParsed(n) ==
    \E k \in 1..Len(excelItems) : excelItems[k].rowNumber = n + FirstDataRow - 1

\* C26: parseItems reads the rows from row 5 on in increasing order and
\* stops after 3 consecutive rows with an empty item code or at the last
\* row: a row with an item (code and serial number) after fewer than 3 such
\* rows is parsed, and no row after a run of 3 is.
C26_StopsAfterThreeEmptyRows ==
    pc = "parsed" =>
        /\ \A k \in 1..(Len(excelItems) - 1) :
               excelItems[k].rowNumber < excelItems[k + 1].rowNumber
        /\ \A k \in 1..Len(excelItems) :
               excelItems[k].rowNumber \in FirstDataRow..(Len(worksheet) + FirstDataRow - 1)
        /\ \A n \in 1..Len(worksheet) :
               RowParsed(n) <=> /\ ~EmptyCode(n)
                                /\ worksheet[n].AG # Null
                                /\ ~AfterThreeEmpty(n)

\* a row after two empty rows was parsed and a row with an item after three
\* empty rows was not
C26_Witness ==
    /\ pc = "parsed"
    /\ \E n \in 3..Len(worksheet) :
           EmptyCode(n - 2) /\ EmptyCode(n - 1) /\ RowParsed(n)
    /\ \E n \in 1..Len(worksheet) :
           ~EmptyCode(n) /\ worksheet[n].AG # Null /\ AfterThreeEmpty(n)

-----------------------------------------------------------------------------
(* OCRCleanup.cleanupOCRResults and getStatistics *)

\* the ocr-result files that the cleanup finds
FoundFiles == {logsDir[i] : i \in {j \in DOMAIN logsDir : IsOcrResultFile(logsDir[j])}}

\* the files of the directory after the step
FilesLeft == {logsDir'[i] : i \in DOMAIN logsDir'}

\* T holds the maxFiles most recently modified of the files found
MostRecent(T) ==
    /\ T \subseteq FoundFiles
    /\ Cardinality(T) = IF call[1].maxFiles < Cardinality(FoundFiles)
                         THEN call[1].maxFiles ELSE Cardinality(FoundFiles)
    /\ \A a \in T : \A b \in FoundFiles \ T : a.mtime >= b.mtime

\* a cleanup that is no dry run has deleted exactly the ocr-result files that
\* are older than maxAge days or not among the maxFiles most recent, and has
\* returned counts that add up to the number of files found
CleanupDeletes ==
    /\ \E T \in SUBSET FoundFiles :
           /\ MostRecent(T)
           /\ \A f \in FoundFiles :
                  f \notin FilesLeft <=>
                      (now - f.mtime > call[1].maxAge * DayMs \/ f \notin T)
    /\ \A i \in DOMAIN logsDir : ~IsOcrResultFile(logsDir[i]) => logsDir[i] \in FilesLeft
    /\ ret'.result[1].deleted = Cardinality(FoundFiles \ FilesLeft)
    /\ ret'.result[1].deleted + ret'.result[1].kept = Cardinality(FoundFiles)

\* C27 as stated: a cleanup that is no dry run deletes an ocr-result file iff
\* it is older than maxAge days or not among the maxFiles most recent, its
\* counts add up to the files found, and the toDelete that getStatistics
\* reported for the same directory is the number deleted.
C27_CleanupMatchesStatistics ==
    [][(pc' = "cleaned" /\ ~call[1].dryRun) =>
          /\ CleanupDeletes
          /\ ret.stats # None =>
                 ret.stats[1].ocrResults.toDelete = ret'.result[1].deleted]_vars

\* C27: a cleanup that is no dry run deletes an ocr-result file iff it is
\* older than maxAge days or not among the maxFiles most recent, its counts
\* add up to the files found, and the toDelete that getStatistics reported
\* for the same directory at the same reading of the clock is the number
\* deleted.
C27_CleanupMatchesStatisticsAtSameTime ==
    [][(pc' = "cleaned" /\ ~call[1].dryRun) =>
          /\ CleanupDeletes
          /\ pc = "stats" =>
                 ret.stats[1].ocrResults.toDelete = ret'.result[1].deleted]_vars

\* a cleanup right after getStatistics has deleted a file and kept a file
C27_Witness ==
    /\ pc = "cleaned"
    /\ ~call[1].dryRun
    /\ ret.stats # None
    /\ now = ClockStart
    /\ ret.result[1].deleted > 0
    /\ ret.result[1].kept > 0
    /\ ret.stats[1].ocrResults.toDelete = ret.result[1].deleted

-----------------------------------------------------------------------------
(* retryWithBackoff *)

\* C30: for maxRetries >= 1 and an onRetry that returns, fn is invoked at
\* most maxRetries times; the call returns the result of the first attempt
\* that succeeds and makes no further attempt; when every attempt fails it
\* throws the error of the last one; onRetry is called once after each
\* failed attempt but the last; the first wait is initialDelay, each later
\* wait is the one before times backoffFactor, and no wait exceeds maxDelay.
C30_RetryWithBackoff ==
    (retry # <<>> /\ call[1].maxRetries >= 1) =>
        /\ retry.fnCalls <= call[1].maxRetries
        /\ pc = "returned" => ret = Some(retry.fnCalls)
        /\ pc = "thrown" => /\ retry.fnCalls = call[1].maxRetries
                            /\ retry.lastError = Some(call[1].maxRetries)
        /\ call[1].onRetry # None =>
               retry.onRetryCalls =
                   [n \in 1..(IF pc \in {"returned", "slept", "called"}
                              THEN retry.attempt - 1
                              ELSE IF pc = "thrown" THEN retry.fnCalls - 1
                              ELSE retry.fnCalls) |-> n]
        /\ Len(retry.sleeps) = Len(retry.onRetryCalls) \/ call[1].onRetry = None
        /\ Len(retry.sleeps) > 0 => retry.sleeps[1] = call[1].initialDelay
        /\ \A n \in 1..(Len(retry.sleeps) - 1) :
               retry.sleeps[n + 1] = MathMin(retry.sleeps[n] * call[1].backoffFactor,
                                             call[1].maxDelay)
        /\ \A n \in 1..Len(retry.sleeps) : retry.sleeps[n] <= call[1].maxDelay

-----------------------------------------------------------------------------
(* Two documents in OCR at the same time *)

\* parser p is rasterizing or recognizing pages
OcrActive(p) == parsers[p].pc \in {"rasterizing", "batch"}

\* C28: while a parser is rasterizing or recognizing pages, a step of the
\* OCR run of the other parser deletes neither a PNG file of that parser nor
\* the temp folder.
C28_OtherRunKeepsArtifacts ==
    [][\A p \in ParserIds :
          (OcrActive(p) /\ parsers'[p] = parsers[p]) =>
              /\ ocrTemp.exists => ocrTemp'.exists
              /\ \A f \in ocrTemp.files : f[1] = p => f \in ocrTemp'.files]_vars

====
